---- MODULE Spec2Model ----
(***************************************************************************)
(* Model of the moleXa molecular viewer: the connection-table parser and   *)
(* 2D-to-3D reconstructor (src/app/page.tsx), the molecule store           *)
(* (src/lib/store.ts), the asynchronous fetch pipeline (src/app/page.tsx)  *)
(* and the scene geometry builder (src/components/canvas-3d.tsx).          *)
(*                                                                         *)
(* Text is modelled at character level: a text is the sequence of its      *)
(* lines (the result of split("\n")), a line is a sequence of one-         *)
(* character strings.  Numbers are fixed-point integers with Unit = 1000   *)
(* (three decimals); the JavaScript value NaN is the reserved integer NaN. *)
(***************************************************************************)
EXTENDS Integers, Sequences, FiniteSets, TLC

VARIABLES
  sdfText,      \* parser run: the text handed to parseSDF2DTo3D (sequence of lines)
  ps,           \* parser run: the locals of parseSDF2DTo3D and its position
  store,        \* the zustand store (useMoleculeStore)
  requests,     \* in-flight / settled invocations of fetchMoleculeData, in start order
  scene,        \* Canvas3D refs: molecule group in the scene, camera
  sceneData,    \* the value last returned by getEnhancedSceneData, << >> before any call
  calc,         \* the last direct call of a function: its name, argument and result
  apiWakeup     \* page.tsx: the state of useApiWakeup(true), showApiModal and the hook's
                \* pending work; << >> where the hook is not part of the run

vars == <<sdfText, ps, store, requests, scene, sceneData, calc, apiWakeup>>

(***************************************************************************)
(* Bounds of the model.                                                    *)
(***************************************************************************)
MaxAtomLines == 3      \* atom lines present in a generated text
MaxBondLines == 2      \* bond lines present in a generated text
MaxRequests  == 2      \* invocations of fetchMoleculeData in one behaviour

(***************************************************************************)
(* Numbers.                                                                *)
(***************************************************************************)
Unit == 1000
NaN  == -999999999
PI   == 3142           \* Math.PI in fixed point

IsNaN(v) == v = NaN
Abs(v)   == IF v < 0 THEN -v ELSE v
Min2(a, b) == IF a <= b THEN a ELSE b
Max2(a, b) == IF a >= b THEN a ELSE b

\* integer division truncating toward zero, as floating point is symmetric in sign
TDiv(a, b) == IF a >= 0 THEN a \div b ELSE -((-a) \div b)

NAdd(a, b) == IF IsNaN(a) \/ IsNaN(b) THEN NaN ELSE a + b
NSub(a, b) == IF IsNaN(a) \/ IsNaN(b) THEN NaN ELSE a - b
\* product of two fixed-point numbers
NMul(a, b) == IF IsNaN(a) \/ IsNaN(b) THEN NaN ELSE TDiv(a * b, Unit)
\* a * (num / den) for a literal factor such as 1.6 = 16/10
NScale(a, num, den) == IF IsNaN(a) THEN NaN ELSE TDiv(a * num, den)
\* JavaScript `v || 0` on a number
OrZero(v) == IF IsNaN(v) THEN 0 ELSE v

\* Math.sin on fixed point (Bhaskara's rational approximation, error < 0.002)
SinHalf(r) ==
  LET p == r * (PI - r)
  IN  (16 * p) \div ((5 * PI * PI - 4 * p) \div Unit)
SinPos(a) ==
  LET r == a % (2 * PI)
  IN  IF r <= PI THEN SinHalf(r) ELSE -SinHalf(r - PI)
MathSin(a) == IF IsNaN(a) THEN NaN ELSE IF a >= 0 THEN SinPos(a) ELSE -SinPos(-a)
MathCos(a) == IF IsNaN(a) THEN NaN ELSE MathSin(a + PI \div 2)

RECURSIVE ISqrtIn(_, _, _)
ISqrtIn(n, lo, hi) ==
  IF lo >= hi THEN lo
  ELSE LET mid == (lo + hi + 1) \div 2
       IN  IF mid * mid <= n THEN ISqrtIn(n, mid, hi) ELSE ISqrtIn(n, lo, mid - 1)
\* floor of the square root (Math.sqrt inside Vector3.length)
ISqrt(n) == ISqrtIn(n, 0, 46340)

(***************************************************************************)
(* Strings as sequences of characters.                                     *)
(***************************************************************************)
DigitChars == <<"0", "1", "2", "3", "4", "5", "6", "7", "8", "9">>
IsDigit(c) == \E k \in 1..10 : DigitChars[k] = c
DigitVal(c) == (CHOOSE k \in 1..10 : DigitChars[k] = c) - 1
IsSpace(c) == c \in {" ", "\t", "\r"}

\* the value JavaScript yields for a missing array element
Undefined == <<"<undefined>">>

\* String.prototype.substring(a, b) for 0 <= a <= b
Substring(s, a, b) == SubSeq(s, a + 1, Min2(b, Len(s)))

RECURSIVE TrimStart(_)
TrimStart(s) == IF s # <<>> /\ IsSpace(Head(s)) THEN TrimStart(Tail(s)) ELSE s
RECURSIVE TrimEnd(_)
TrimEnd(s) ==
  IF s # <<>> /\ IsSpace(s[Len(s)]) THEN TrimEnd(SubSeq(s, 1, Len(s) - 1)) ELSE s
\* String.prototype.trim
Trim(s) == TrimEnd(TrimStart(s))

\* longest prefix of decimal digits
RECURSIVE DigitPrefix(_)
DigitPrefix(s) ==
  IF s # <<>> /\ IsDigit(Head(s)) THEN <<Head(s)>> \o DigitPrefix(Tail(s)) ELSE <<>>
RECURSIVE DigitsValue(_, _)
DigitsValue(s, acc) ==
  IF s = <<>> THEN acc ELSE DigitsValue(Tail(s), acc * 10 + DigitVal(Head(s)))

\* Number.parseInt(s): leading white space, optional sign, decimal digits
ParseInt(s) ==
  LET t    == TrimStart(s)
      neg  == t # <<>> /\ Head(t) = "-"
      body == IF t # <<>> /\ Head(t) \in {"-", "+"} THEN Tail(t) ELSE t
      ds   == DigitPrefix(body)
  IN  IF ds = <<>> THEN NaN
      ELSE IF neg THEN -DigitsValue(ds, 0) ELSE DigitsValue(ds, 0)

\* the first three decimals of a fraction digit string, as thousandths
FracValue(fs) ==
  LET d(k) == IF k <= Len(fs) THEN DigitVal(fs[k]) ELSE 0
  IN  100 * d(1) + 10 * d(2) + d(3)

\* Number.parseFloat(s) for sign, digits, point, digits (no exponent form)
ParseFloat(s) ==
  LET t     == TrimStart(s)
      neg   == t # <<>> /\ Head(t) = "-"
      body  == IF t # <<>> /\ Head(t) \in {"-", "+"} THEN Tail(t) ELSE t
      ip    == DigitPrefix(body)
      rest  == SubSeq(body, Len(ip) + 1, Len(body))
      fp    == IF rest # <<>> /\ Head(rest) = "." THEN DigitPrefix(Tail(rest)) ELSE <<>>
      mag   == DigitsValue(ip, 0) * Unit + FracValue(fp)
  IN  IF ip = <<>> /\ fp = <<>> THEN NaN
      ELSE IF neg THEN -mag ELSE mag

RECURSIVE ToDecimal(_)
\* Number.prototype.toString for a non-negative integer
ToDecimal(n) ==
  IF n < 10 THEN <<DigitChars[n + 1]>>
  ELSE ToDecimal(n \div 10) \o <<DigitChars[(n % 10) + 1]>>

(***************************************************************************)
(* parseSDF2DTo3D (src/app/page.tsx).  The function is synchronous; its    *)
(* loops are unfolded into steps over the record of its locals so that     *)
(* each write can be observed.  parseSDF2DTo3D(...) below runs the same    *)
(* steps to completion.                                                    *)
(***************************************************************************)
E(c)      == <<c>>
E2(c, d)  == <<c, d>>

elementColors ==
  (E("H") :> "#FFFFFF") @@ (E("C") :> "#303030") @@ (E("N") :> "#3050F8") @@
  (E("O") :> "#FF0D0D") @@ (E("S") :> "#FFFF30") @@ (E("P") :> "#FF8000") @@
  (E("F") :> "#90E050") @@ (E2("C", "l") :> "#1FF01F") @@ (E2("B", "r") :> "#A62929") @@
  (E("I") :> "#940094") @@ (E("B") :> "#FFB5B5") @@ (E2("S", "i") :> "#F0C8A0") @@
  (E2("A", "l") :> "#BFA6A6") @@ (E2("C", "a") :> "#3DFF00") @@ (E2("F", "e") :> "#E06633") @@
  (E2("Z", "n") :> "#7D80B0") @@ (E2("M", "g") :> "#8AFF00") @@ (E2("N", "a") :> "#AB5CF2") @@
  (E("K") :> "#8F40D4")

elementRadii ==
  (E("H") :> 300) @@ (E("C") :> 500) @@ (E("N") :> 450) @@ (E("O") :> 400) @@
  (E("S") :> 600) @@ (E("P") :> 550) @@ (E("F") :> 350) @@ (E2("C", "l") :> 500) @@
  (E2("B", "r") :> 600) @@ (E("I") :> 700) @@ (E("B") :> 400) @@ (E2("S", "i") :> 600) @@
  (E2("A", "l") :> 500) @@ (E2("C", "a") :> 800) @@ (E2("F", "e") :> 600) @@
  (E2("Z", "n") :> 600) @@ (E2("M", "g") :> 700) @@ (E2("N", "a") :> 900) @@
  (E("K") :> 1000)

DefaultRadius == 400
DefaultColor  == "#808080"
ScaleNum      == 16      \* scaleFactor = 1.6
FlatThreshold == 100     \* maxZ < 0.1
EnhanceNum    == 14      \* z * 1.4

\* lines[k] for a computed index k
LineAt(lines, k) ==
  IF IsNaN(k) \/ k < 0 \/ k >= Len(lines) THEN Undefined ELSE lines[k + 1]

\* a variant whose fallback radius is that of carbon
ElementInfoCarbonDefault(element) ==
  [radius |-> IF element \in DOMAIN elementRadii THEN elementRadii[element] ELSE 500,
   color  |-> IF element \in DOMAIN elementColors THEN elementColors[element] ELSE DefaultColor]

\* the element table entry created on first sight of a symbol
ElementInfo(element) ==
  [radius |-> IF element \in DOMAIN elementRadii THEN elementRadii[element] ELSE DefaultRadius,
   color  |-> IF element \in DOMAIN elementColors THEN elementColors[element] ELSE DefaultColor]

\* a variant that numbers from the count before the increment
AtomIdFromZero(element, count) == element \o <<"-">> \o ToDecimal(count)

\* `${element}-${count + 1}`
AtomId(element, count) == element \o <<"-">> \o ToDecimal(count + 1)

\* locals of parseSDF2DTo3D before the first statement
ParserIdle ==
  [pc |-> "idle", i |-> 0, formula |-> "", atomCount |-> 0, bondCount |-> 0,
   atoms |-> <<>>, elements |-> <<>>, elementCounts |-> <<>>, bonds |-> <<>>,
   connectivity |-> <<>>, is2D |-> FALSE, rnd |-> <<>>]

\* lines 75-96: split, counts line, empty collections
ParseBegin(lines, formula, rnd) ==
  LET countsLine == LineAt(lines, 3)
  IN  IF countsLine = Undefined
      THEN [ParserIdle EXCEPT !.pc = "thrown", !.formula = formula, !.rnd = rnd]
      ELSE [ParserIdle EXCEPT !.pc = "atoms", !.formula = formula, !.rnd = rnd,
                              !.atomCount = ParseInt(Substring(countsLine, 0, 3)),
                              !.bondCount = ParseInt(Substring(countsLine, 3, 6))]

\* lines 98-123: one iteration of the atom loop, or its exit (lines 126-132)
ParseAtomStep(lines, p) ==
  IF ~(p.i < p.atomCount)
  THEN [p EXCEPT !.pc = "bonds", !.i = 0,
                 !.connectivity = [k \in 1..Max2(p.atomCount, 0) |-> <<>>]]
  ELSE
    LET atomLine == LineAt(lines, 4 + p.i)
    IN  IF atomLine = Undefined THEN [p EXCEPT !.pc = "thrown"]
        ELSE
          LET x == ParseFloat(Trim(Substring(atomLine, 0, 10)))
              y == ParseFloat(Trim(Substring(atomLine, 10, 20)))
              z == OrZero(ParseFloat(Trim(Substring(atomLine, 20, 30))))
              element == Trim(Substring(atomLine, 31, 34))
              count == IF element \in DOMAIN p.elementCounts
                       THEN p.elementCounts[element] ELSE 0
              atom == [id |-> AtomId(element, count), element |-> element,
                       position |-> <<x, y, z>>, originalIndex |-> p.i]
          IN  [p EXCEPT !.i = p.i + 1,
                        !.atoms = Append(p.atoms, atom),
                        !.elementCounts = (element :> (count + 1)) @@ p.elementCounts,
                        !.elements = IF element \in DOMAIN p.elements THEN p.elements
                                     ELSE p.elements @@ (element :> ElementInfo(element))]

\* a variant that takes every code from 3 up as a triple bond
BondTypeOfAtLeast(bondTypeNum) ==
  IF bondTypeNum = 2 THEN "double"
  ELSE IF ~IsNaN(bondTypeNum) /\ bondTypeNum >= 3 THEN "triple"
  ELSE "single"

\* lines 142-144
BondTypeOf(bondTypeNum) ==
  IF bondTypeNum = 2 THEN "double"
  ELSE IF bondTypeNum = 3 THEN "triple"
  ELSE "single"

\* line 146
IndexInRange(idx, atoms) == ~IsNaN(idx) /\ idx >= 0 /\ idx < Len(atoms)

\* a variant that names the endpoints by file position instead of by atom id
BondRecordByPosition(atoms, atom1Index, atom2Index, bondType) ==
  [atom1 |-> AtomId(atoms[atom1Index + 1].element, atom1Index),
   atom2 |-> AtomId(atoms[atom2Index + 1].element, atom2Index),
   type  |-> bondType]

\* lines 147-151
BondRecord(atoms, atom1Index, atom2Index, bondType) ==
  [atom1 |-> atoms[atom1Index + 1].id,
   atom2 |-> atoms[atom2Index + 1].id,
   type  |-> bondType]

\* connectivity.get(a)?.push(b)
Push(conn, a, b) ==
  IF a + 1 \in DOMAIN conn THEN [conn EXCEPT ![a + 1] = Append(@, b)] ELSE conn

\* a variant that only requires the two endpoint fields
BondLineSkippedBelow6(bondLine) == bondLine = Undefined \/ Len(bondLine) < 6

\* line 136
BondLineSkipped(bondLine) == bondLine = Undefined \/ Len(bondLine) < 9

\* lines 134-156: one iteration of the bond loop, or its exit
ParseBondStep(lines, p) ==
  IF ~(p.i < p.bondCount)
  THEN [p EXCEPT !.pc = "detect", !.i = 0]
  ELSE
    LET bondLine == LineAt(lines, NAdd(NAdd(4, p.atomCount), p.i))
    IN  IF BondLineSkipped(bondLine) THEN [p EXCEPT !.i = p.i + 1]
        ELSE
          LET atom1Index  == NSub(ParseInt(Trim(Substring(bondLine, 0, 3))), 1)
              atom2Index  == NSub(ParseInt(Trim(Substring(bondLine, 3, 6))), 1)
              bondTypeNum == ParseInt(Trim(Substring(bondLine, 6, 9)))
          IN  IF IndexInRange(atom1Index, p.atoms) /\ IndexInRange(atom2Index, p.atoms)
              THEN [p EXCEPT !.i = p.i + 1,
                             !.bonds = Append(p.bonds,
                                 BondRecord(p.atoms, atom1Index, atom2Index,
                                            BondTypeOf(bondTypeNum))),
                             !.connectivity = Push(Push(p.connectivity, atom1Index, atom2Index),
                                                   atom2Index, atom1Index)]
              ELSE [p EXCEPT !.i = p.i + 1]

\* a variant that takes the smallest |z| instead of the largest
ParseDetectSomeFlat(p) ==
  LET flat == \E k \in 1..Len(p.atoms) : Abs(p.atoms[k].position[3]) < FlatThreshold
  IN  [p EXCEPT !.is2D = flat, !.i = 0, !.pc = IF flat THEN "zsynth" ELSE "scale"]

\* lines 159-160: Math.max over no atoms is -Infinity
ParseDetect(p) ==
  LET flat == \A k \in 1..Len(p.atoms) : Abs(p.atoms[k].position[3]) < FlatThreshold
  IN  [p EXCEPT !.is2D = flat, !.i = 0, !.pc = IF flat THEN "zsynth" ELSE "scale"]

\* lines 173-208: which branch computes the base offset
ZRule(element, degree) ==
  IF element = E("C") THEN
       (IF degree = 4 THEN "C4" ELSE IF degree = 3 THEN "C3"
        ELSE IF degree = 2 THEN "C2" ELSE "none")
  ELSE IF element = E("N") THEN
       (IF degree = 3 THEN "N3" ELSE IF degree = 2 THEN "N2" ELSE "none")
  ELSE IF element = E("O") THEN
       (IF degree = 2 THEN "O2" ELSE IF degree = 1 THEN "O1" ELSE "none")
  ELSE IF element = E("H") THEN
       (IF degree = 1 THEN "H1" ELSE "none")
  ELSE "other"

\* (Math.random() - 0.5) * k
Jitter(r, num) == NScale(r - 500, num, 10)

\* lines 176-207: the base offset of one branch
BaseZ(rule, x, y, index, r, partnerZ) ==
  CASE rule = "C4" -> NAdd(NScale(NMul(MathSin(NScale(x, 21, 10)),
                                       MathCos(NScale(y, 17, 10))), 12, 10),
                           Jitter(r, 3))
    [] rule = "C3" -> NScale(MathSin(NAdd(NScale(x, 15, 10), NScale(y, 15, 10))), 4, 10)
    [] rule = "C2" -> NAdd(IF index % 2 = 0 THEN 300 ELSE -300,
                           NScale(MathSin(NAdd(x, y)), 2, 10))
    [] rule = "N3" -> NAdd(NScale(MathSin(NAdd(NScale(x, 18, 10), NScale(y, 13, 10))), 8, 10),
                           300)
    [] rule = "N2" -> NScale(MathCos(NAdd(NScale(x, 14, 10), NScale(y, 21, 10))), 5, 10)
    [] rule = "O2" -> NScale(MathSin(NAdd(NScale(x, 23, 10), NScale(y, 19, 10))), 6, 10)
    [] rule = "O1" -> NScale(MathCos(NAdd(NScale(x, 16, 10), NScale(y, 24, 10))), 8, 10)
    [] rule = "H1" -> NAdd(OrZero(partnerZ), Jitter(r, 8))
    [] rule = "other" -> NAdd(NScale(MathSin(NAdd(NScale(x, 17, 10), NScale(y, 14, 10))), 6, 10),
                              Jitter(r, 4))
    [] OTHER -> 0

\* lines 165-217: the forEach callback for one atom, writing atom.position[2] in place
ParseZStep(p, r) ==
  IF ~(p.i < Len(p.atoms))
  THEN [p EXCEPT !.pc = "scale", !.i = 0]
  ELSE
    LET index     == p.i
        atom      == p.atoms[index + 1]
        x         == atom.position[1]
        y         == atom.position[2]
        connected == IF index + 1 \in DOMAIN p.connectivity
                     THEN p.connectivity[index + 1] ELSE <<>>
        degree    == Len(connected)
        partnerZ  == IF degree >= 1 THEN p.atoms[connected[1] + 1].position[3] ELSE 0
        base      == BaseZ(ZRule(atom.element, degree), x, y, index, r, partnerZ)
        ringStrain == NScale(MathSin(index * 900), 3, 10)
        z         == IF degree >= 2 THEN NAdd(base, ringStrain) ELSE base
    IN  [p EXCEPT !.i = p.i + 1,
                  !.atoms[index + 1].position[3] = NScale(z, EnhanceNum, 10)]

\* a variant of lines 223-224 that scales x and y only
ScaledAtomInPlane(atom) ==
  [id |-> atom.id, element |-> atom.element,
   position |-> <<NScale(atom.position[1], ScaleNum, 10),
                  NScale(atom.position[2], ScaleNum, 10), atom.position[3]>>]

\* line 223-224 for one atom
ScaledAtom(atom) ==
  [id |-> atom.id, element |-> atom.element,
   position |-> [c \in 1..3 |-> NScale(atom.position[c], ScaleNum, 10)]]

\* lines 221-227
ParseScale(p) ==
  [p EXCEPT !.pc = "done", !.atoms = [k \in 1..Len(p.atoms) |-> ScaledAtom(p.atoms[k])]]

\* the Math.random() value drawn for atom `index` in a completed run
RndAt(rnd, index) == rnd[(index % Len(rnd)) + 1]

\* one step of the function body
ParseStep(lines, p) ==
  CASE p.pc = "atoms"  -> ParseAtomStep(lines, p)
    [] p.pc = "bonds"  -> ParseBondStep(lines, p)
    [] p.pc = "detect" -> ParseDetect(p)
    [] p.pc = "zsynth" -> ParseZStep(p, RndAt(p.rnd, p.i))
    [] p.pc = "scale"  -> ParseScale(p)
    [] OTHER -> p

RECURSIVE ParseRun(_, _)
ParseRun(lines, p) ==
  IF p.pc \in {"done", "thrown"} THEN p ELSE ParseRun(lines, ParseStep(lines, p))

\* line 227: the returned model
ParseResult(p) ==
  [formula |-> p.formula, elements |-> p.elements, atoms |-> p.atoms, bonds |-> p.bonds]

\* the whole call: [thrown |-> TRUE] for a TypeError, else the returned model
parseSDF2DTo3D(lines, formula, rnd) ==
  LET p == ParseRun(lines, ParseBegin(lines, formula, rnd))
  IN  IF p.pc = "thrown" THEN [thrown |-> TRUE, model |-> ParseResult(ParserIdle)]
      ELSE [thrown |-> FALSE, model |-> ParseResult(p)]

(***************************************************************************)
(* Vectors (THREE.Vector3) over fixed-point numbers.                       *)
(***************************************************************************)
Vec(x, y, z) == <<x, y, z>>
VAdd(a, b) == <<NAdd(a[1], b[1]), NAdd(a[2], b[2]), NAdd(a[3], b[3])>>
VSub(a, b) == <<NSub(a[1], b[1]), NSub(a[2], b[2]), NSub(a[3], b[3])>>
\* multiplyScalar by a fixed-point scalar
VScale(v, k) == <<NMul(v[1], k), NMul(v[2], k), NMul(v[3], k)>>
VHalf(v) == <<NScale(v[1], 1, 2), NScale(v[2], 1, 2), NScale(v[3], 1, 2)>>
VHasNaN(v) == \E c \in 1..3 : IsNaN(v[c])
VLength(v) ==
  IF VHasNaN(v) THEN NaN ELSE ISqrt(v[1] * v[1] + v[2] * v[2] + v[3] * v[3])
\* normalize(): divideScalar(length() || 1)
VNormalize(v) ==
  LET l == VLength(v)
  IN  IF IsNaN(l) THEN Vec(NaN, NaN, NaN)
      ELSE IF l = 0 THEN v
      ELSE <<TDiv(v[1] * Unit, l), TDiv(v[2] * Unit, l), TDiv(v[3] * Unit, l)>>
VDot(a, b) == NAdd(NAdd(NMul(a[1], b[1]), NMul(a[2], b[2])), NMul(a[3], b[3]))
VCross(a, b) ==
  Vec(NSub(NMul(a[2], b[3]), NMul(a[3], b[2])),
      NSub(NMul(a[3], b[1]), NMul(a[1], b[3])),
      NSub(NMul(a[1], b[2]), NMul(a[2], b[1])))

(***************************************************************************)
(* Scene geometry builder (src/components/canvas-3d.tsx).                  *)
(***************************************************************************)
RenderRadiusNum == 8     \* elementInfo.radius * 0.8
FallbackRadius  == 400   \* ... || 0.4
MinCameraDistance == 5000
CameraFitFactor == 1930  \* 1.8 / (2 * tan(25 degrees)), fov = 50
ControlsMinDistance == 3000    \* controls.minDistance = 3
ControlsMaxDistance == 50000   \* controls.maxDistance = 50

\* a variant without the upper clamp
calculateSpacingFactorUnclamped(atomCount) ==
  Max2(1000, 1000 + TDiv(atomCount * Unit, 500))

\* a variant that starts the growth at 50 atoms
calculateSpacingFactorFrom50(atomCount) ==
  IF atomCount < 50 THEN 1000
  ELSE Max2(1000, Min2(1800, 1000 + TDiv(atomCount * Unit, 500)))

\* lines 380-385
calculateSpacingFactor(atomCount) ==
  Max2(1000, Min2(1800, 1000 + TDiv(atomCount * Unit, 500)))

\* lines 410-414
LengthMultiplier(bondType) ==
  IF bondType = "double" THEN 1400 ELSE IF bondType = "triple" THEN 1600 ELSE 1200

\* lines 450-458 and 477-485: the lateral offset of the outer cylinders
BondOffset(axis, reach) ==
  LET d == VDot(axis, Vec(0, 0, Unit))
      perpendicular == IF ~IsNaN(d) /\ Abs(d) > 900 THEN Vec(Unit, 0, 0) ELSE Vec(0, 0, Unit)
  IN  VScale(VNormalize(VCross(perpendicular, axis)), reach)

\* a cylinder mesh before it is tagged
Cylinder(position, radius, height, axis) ==
  [kind |-> "cylinder", position |-> position, radius |-> radius,
   height |-> height, axis |-> axis]

\* a variant that draws one cylinder whatever the bond type
createBondGeometryPlain(start, end, bondType, atom1Radius, atom2Radius) ==
  LET direction == VSub(end, start)
      axis == VNormalize(direction)
  IN  << Cylinder(VHalf(VAdd(start, end)), NScale(Min2(atom1Radius, atom2Radius), 13, 100),
                  VLength(direction), axis) >>

\* lines 394-520: the meshes of one bond, in the order they are pushed
createBondGeometry(start, end, bondType, atom1Radius, atom2Radius) ==
  LET direction == VSub(end, start)
      distance  == VLength(direction)
      bondRadius == NScale(Min2(atom1Radius, atom2Radius), 13, 100)
      axis == VNormalize(direction)
      surfaceDistance == NSub(NSub(distance, atom1Radius), atom2Radius)
      adjustedStart == VAdd(start, VScale(axis, atom1Radius))
      adjustedEnd   == VSub(end, VScale(axis, atom2Radius))
      adjustedDistance == NMul(surfaceDistance, LengthMultiplier(bondType))
      centerPos == VHalf(VAdd(adjustedStart, adjustedEnd))
  IN  IF bondType = "single"
      THEN << Cylinder(centerPos, bondRadius, adjustedDistance, axis) >>
      ELSE IF bondType = "double"
      THEN LET r == NScale(bondRadius, 8, 10)
               offset == BondOffset(axis, NScale(bondRadius, 15, 10))
           IN  << Cylinder(VAdd(centerPos, offset), r, adjustedDistance, axis),
                  Cylinder(VSub(centerPos, offset), r, adjustedDistance, axis) >>
      ELSE IF bondType = "triple"
      THEN LET r == NScale(bondRadius, 7, 10)
               offset1 == BondOffset(axis, NScale(bondRadius, 18, 10))
           IN  << Cylinder(centerPos, r, adjustedDistance, axis),
                  Cylinder(VAdd(centerPos, offset1), r, adjustedDistance, axis),
                  Cylinder(VSub(centerPos, offset1), r, adjustedDistance, axis) >>
      ELSE << >>

\* line 580: the spaced copy of an atom's coordinates
SpacedPosition(position, spacingFactor) == VScale(position, spacingFactor)

\* a variant without the test on line 574
HasElementInfoAlways(data, atom) == TRUE

\* line 596: the atom has an entry in data.elements
HasElementInfo(data, atom) == atom.element \in DOMAIN data.elements

\* lines 577 and 617-618
RenderRadius(data, element) ==
  IF element \in DOMAIN data.elements
  THEN NScale(data.elements[element].radius, RenderRadiusNum, 10)
  ELSE FallbackRadius

\* lines 583-598: the sphere of atom `index` (0-based)
Sphere(data, index, spacingFactor) ==
  LET atom == data.atoms[index + 1]
  IN  [kind |-> "sphere",
       position |-> SpacedPosition(atom.position, spacingFactor),
       radius |-> RenderRadius(data, atom.element),
       atomIndex |-> index, atomId |-> atom.id, element |-> atom.element]

\* lines 602-606 with createAtomLabel (lines 365-367)
Label(sphere) ==
  [kind |-> "label",
   position |-> VAdd(sphere.position, Vec(0, 0, NScale(sphere.radius, 1, 10))),
   scale |-> NScale(sphere.radius, 12, 10)]

RECURSIVE AtomObjects(_, _, _, _)
\* lines 572-607: spheres and labels in the order they are added to the group
AtomObjects(data, index, spacingFactor, showLabels) ==
  IF index >= Len(data.atoms) THEN << >>
  ELSE LET rest == AtomObjects(data, index + 1, spacingFactor, showLabels)
       IN  IF ~HasElementInfo(data, data.atoms[index + 1]) THEN rest
           ELSE LET sphere == Sphere(data, index, spacingFactor)
                IN  IF showLabels THEN <<sphere, Label(sphere)>> \o rest
                    ELSE <<sphere>> \o rest

\* atomMap.get(id): Map.set keeps the last atom stored under an id
AtomMapGet(spheres, id) ==
  LET hits == { k \in 1..Len(spheres) : spheres[k].kind = "sphere" /\ spheres[k].atomId = id }
  IN  IF hits = {} THEN << >>
      ELSE << spheres[CHOOSE k \in hits : \A j \in hits : j <= k] >>

\* line 622: userData of a bond mesh
TagBond(mesh, bond) ==
  [kind |-> mesh.kind, position |-> mesh.position, radius |-> mesh.radius,
   height |-> mesh.height, axis |-> mesh.axis,
   bondType |-> bond.type, atom1 |-> bond.atom1, atom2 |-> bond.atom2]

RECURSIVE BondObjects(_, _, _)
\* lines 610-625: the cylinders of all bonds, in the order they are added to the group
BondObjects(data, k, atomObjects) ==
  IF k > Len(data.bonds) THEN << >>
  ELSE LET bond  == data.bonds[k]
           atom1 == AtomMapGet(atomObjects, bond.atom1)
           atom2 == AtomMapGet(atomObjects, bond.atom2)
           rest  == BondObjects(data, k + 1, atomObjects)
       IN  IF atom1 = << >> \/ atom2 = << >> THEN rest
           ELSE LET meshes == createBondGeometry(atom1[1].position, atom2[1].position, bond.type,
                                                 RenderRadius(data, atom1[1].element),
                                                 RenderRadius(data, atom2[1].element))
                IN  [j \in 1..Len(meshes) |-> TagBond(meshes[j], bond)] \o rest

\* Math.min / Math.max, which return NaN if an argument is NaN
NMin(a, b) == IF IsNaN(a) \/ IsNaN(b) THEN NaN ELSE Min2(a, b)
NMax(a, b) == IF IsNaN(a) \/ IsNaN(b) THEN NaN ELSE Max2(a, b)

\* half extent of an object's axis-aligned box along coordinate c.  A sphere reaches its
\* radius, a label half its scale in x and y; a cylinder reaches half its height along
\* its axis and its radius across it.
HalfExtent(obj, c) ==
  IF obj.kind = "sphere" THEN obj.radius
  ELSE IF obj.kind = "label" THEN (IF c = 3 THEN 0 ELSE NScale(obj.scale, 1, 2))
  ELSE IF IsNaN(obj.axis[c]) \/ IsNaN(obj.height) \/ IsNaN(obj.radius) THEN NaN
  ELSE TDiv(Abs(obj.axis[c]) * Abs(obj.height), 2 * Unit) + obj.radius

ObjectBox(obj) ==
  [empty |-> FALSE,
   min |-> VSub(obj.position, <<HalfExtent(obj, 1), HalfExtent(obj, 2), HalfExtent(obj, 3)>>),
   max |-> VAdd(obj.position, <<HalfExtent(obj, 1), HalfExtent(obj, 2), HalfExtent(obj, 3)>>)]

EmptyBox == [empty |-> TRUE, min |-> Vec(0, 0, 0), max |-> Vec(0, 0, 0)]

\* Box3.union
BoxUnion(a, b) ==
  IF a.empty THEN b
  ELSE IF b.empty THEN a
  ELSE [empty |-> FALSE,
        min |-> <<NMin(a.min[1], b.min[1]), NMin(a.min[2], b.min[2]), NMin(a.min[3], b.min[3])>>,
        max |-> <<NMax(a.max[1], b.max[1]), NMax(a.max[2], b.max[2]), NMax(a.max[3], b.max[3])>>]

RECURSIVE BoxOfObjects(_, _)
\* line 628: new THREE.Box3().setFromObject(moleculeGroup), the group not yet moved
BoxOfObjects(children, offset) ==
  IF children = << >> THEN EmptyBox
  ELSE LET own == ObjectBox(Head(children))
           moved == [empty |-> FALSE,
                     min |-> VAdd(own.min, offset),
                     max |-> VAdd(own.max, offset)]
       IN  BoxUnion(moved, BoxOfObjects(Tail(children), offset))

\* Box3.getCenter: the origin for an empty box
BoxCenter(box) == IF box.empty THEN Vec(0, 0, 0) ELSE VHalf(VAdd(box.min, box.max))
\* Box3.getSize: zero for an empty box
BoxSize(box) == IF box.empty THEN Vec(0, 0, 0) ELSE VSub(box.max, box.min)

\* lines 637-644: the camera's z after framing
CameraDistance(box) ==
  LET size == BoxSize(box)
      maxDim == NMax(NMax(size[1], size[2]), size[3])
      distance == IF IsNaN(maxDim) THEN NaN ELSE Abs(NMul(maxDim, CameraFitFactor))
  IN  NMax(distance, MinCameraDistance)

\* lines 133-159, SimpleOrbitControls.update with no pointer input (sphericalDelta zero,
\* scale 1) for a camera on the positive z axis and the target at the origin: theta is 0
\* and phi is pi / 2, inside its limits, and the radius is clamped; Math.max and Math.min
\* keep NaN
ControlsUpdate(sc) ==
  [sc EXCEPT !.cameraZ = NMax(ControlsMinDistance, NMin(ControlsMaxDistance, @))]

\* a variant of the atom loop that writes the spaced coordinates into the atom it reads
AtomsSpacedInPlace(atoms, spacingFactor) ==
  [k \in 1..Len(atoms) |->
     [atoms[k] EXCEPT !.position = SpacedPosition(@, spacingFactor)]]

\* the atoms of the model once the atom loop has run: the loop reads atom.position and
\* builds new arrays (line 580) and new objects (line 599)
AtomsAfterRender(atoms, spacingFactor) == atoms

\* lines 558-655: the group added to the scene and the camera position
renderMolecule(data, showLabels) ==
  LET spacingFactor == calculateSpacingFactor(Len(data.atoms))
      atomObjects == AtomObjects(data, 0, spacingFactor, showLabels)
      children == atomObjects \o BondObjects(data, 1, atomObjects)
      box == BoxOfObjects(children, Vec(0, 0, 0))
  IN  [group |-> << [children |-> children,
                     position |-> VSub(Vec(0, 0, 0), BoxCenter(box))] >>,
       cameraZ |-> CameraDistance(box),
       target |-> Vec(0, 0, 0)]

(***************************************************************************)
(* Input texts for runs of the parser.                                     *)
(***************************************************************************)
Spaces(n) == [k \in 1..n |-> " "]
\* String.prototype.padStart / padEnd with blanks
PadStart(s, n) == IF Len(s) >= n THEN s ELSE Spaces(n - Len(s)) \o s
PadEnd(s, n)   == IF Len(s) >= n THEN s ELSE s \o Spaces(n - Len(s))

AtomTail == <<" ", "0", " ", " ", "0", " ", " ", "0">>
BondTail == <<" ", " ", "0", " ", " ", "0">>

\* a V2000 atom line: x, y, z in columns of 10, a blank, the symbol in 3 columns
AtomLine(xs, ys, zs, el) ==
  PadStart(xs, 10) \o PadStart(ys, 10) \o PadStart(zs, 10) \o <<" ">> \o PadEnd(el, 3) \o AtomTail
\* a V2000 bond line: two atom numbers and the bond order in columns of 3
BondLine(a, b, t) == PadStart(a, 3) \o PadStart(b, 3) \o PadStart(t, 3) \o BondTail
\* the counts line
CountsLine(a, b) == PadStart(a, 3) \o PadStart(b, 3) \o <<" ", " ", "0", " ", "V", "2", "0", "0", "0">>

MEndLine   == <<"M", " ", " ", "E", "N", "D">>
DollarLine == <<"$", "$", "$", "$">>
HeaderLines == << <<"m", "o", "l">>, <<>>, <<>> >>
TrailerLines == << MEndLine, DollarLine, <<>> >>

Zero  == <<"0", ".", "0", "0", "0", "0">>
OneP2 == <<"1", ".", "2", "0", "0", "0">>
NegP7 == <<"-", "0", ".", "7", "5", "0", "0">>
OneP5 == <<"1", ".", "5", "0", "0", "0">>
Junk  == <<"a", "b">>
Tiny  == <<"0", ".", "0", "5", "0", "0">>

CarbonLine   == AtomLine(Zero, Zero, Zero, E("C"))
\* z = 0.05: not 0, and below the flatness threshold
HydrogenLine == AtomLine(OneP2, Zero, Tiny, E("H"))
OxygenLine   == AtomLine(NegP7, OneP2, OneP5, E("O"))
UnknownLine  == AtomLine(Zero, NegP7, Junk, E2("X", "x"))
\* an atom line cut off after 25 characters whose x field is not a number
BrokenLine   == SubSeq(AtomLine(Junk, OneP2, Zero, E("H")), 1, 25)

\* a full atom line whose x field is not a number
GarbledLine  == AtomLine(Junk, OneP2, Zero, E("H"))

AtomLineChoices == { CarbonLine, HydrogenLine, OxygenLine }

\* bond lines: the three orders, an order code of 4, an index of 0, a line of 8 characters
CoreBondLines ==
  { BondLine(E("1"), E("2"), E("1")),
    BondLine(E("2"), E("3"), E("2")),
    BondLine(E("3"), E("1"), E("3")),
    BondLine(E("1"), E("1"), E("4")),
    BondLine(E("0"), E("1"), E("2")),
    SubSeq(BondLine(E("1"), E("2"), E("2")), 1, 8) }

\* further order codes (negative, not a number, 0) and endpoint fields (negative, not a
\* number, beyond the atoms)
EdgeBondLines ==
  { BondLine(E("2"), E("1"), E2("-", "2")),
    BondLine(E("1"), E("2"), Junk),
    BondLine(E("1"), E("2"), E("0")),
    BondLine(E("1"), E2("-", "1"), E("1")),
    BondLine(Junk, E("2"), E("3")),
    BondLine(E("2"), E("9"), E("2")) }

SeqsUpTo(S, n) == UNION { [1..k -> S] : k \in 0..n }

TextOf(a, b, as, bs, tl) == HeaderLines \o <<CountsLine(a, b)>> \o as \o bs \o tl

\* texts whose counts line agrees with the lines present
WellFormedTexts ==
  { TextOf(ToDecimal(Len(as)), ToDecimal(Len(bs)), as, bs, TrailerLines) :
      as \in SeqsUpTo(AtomLineChoices, MaxAtomLines),
      bs \in SeqsUpTo(CoreBondLines, MaxBondLines) }

\* two-atom texts with every kind of bond line
EdgeBondTexts ==
  { TextOf(ToDecimal(Len(as)), ToDecimal(Len(bs)), as, bs, TrailerLines) :
      as \in [1..Min2(2, MaxAtomLines) -> {CarbonLine, UnknownLine}],
      bs \in SeqsUpTo(CoreBondLines \cup EdgeBondLines, MaxBondLines) }

CountFieldChoices == { E("0"), E("1"), E("2"), E("3"), Junk, E2("-", "1") }

\* texts whose counts line disagrees with the lines present, and truncated texts
MismatchedTexts ==
  { TextOf(a, b, as, bs, tl) :
      a \in CountFieldChoices, b \in CountFieldChoices,
      as \in SeqsUpTo({CarbonLine, BrokenLine}, 2),
      bs \in SeqsUpTo({BondLine(E("1"), E("2"), E("2"))}, 1),
      tl \in {TrailerLines, <<>>} }
  \cup { SubSeq(HeaderLines, 1, k) : k \in 0..3 }

ParserTexts == WellFormedTexts \cup EdgeBondTexts \cup MismatchedTexts

SceneAtomChoices == { CarbonLine, OxygenLine, GarbledLine }
\* the three bond orders, between atoms 1-2, 2-3 and 3-1
SceneBonds ==
  << BondLine(E("1"), E("2"), E("1")), BondLine(E("2"), E("3"), E("2")),
     BondLine(E("3"), E("1"), E("3")) >>
\* bond blocks: the lines of SceneBonds picked in increasing order
SceneBondBlocks ==
  { [k \in 1..Len(ix) |-> SceneBonds[ix[k]]] :
      ix \in { jx \in SeqsUpTo(1..3, MaxBondLines) :
                 \A k \in 1..(Len(jx) - 1) : jx[k] < jx[k + 1] } }
\* texts whose counts line agrees with its blocks and that have an atom
SceneTexts ==
  { TextOf(ToDecimal(Len(as)), ToDecimal(Len(bs)), as, bs, TrailerLines) :
      as \in SeqsUpTo(SceneAtomChoices, MaxAtomLines) \ {<<>>},
      bs \in SceneBondBlocks }

\* Math.random() lies in [0, 1)
JitterValues == {0, 999}
\* the draws of one parse
JitterSeqs == [1..MaxAtomLines -> JitterValues]

\* a data block after the connection table, longer than the minimum length
PropertyLines == << <<">", " ", "<", "C", "I", "D", ">">>, [k \in 1..200 |-> "7"], <<>> >>

OxygenFlatLine == AtomLine(NegP7, OneP2, Zero, E("O"))
\* the structure texts the network may answer with
SdfResponses ==
  << \* 1: flat O-C-O, two single bonds
     TextOf(E("3"), E("2"), <<OxygenFlatLine, CarbonLine, OxygenFlatLine>>,
            <<BondLine(E("1"), E("2"), E("1")), BondLine(E("2"), E("3"), E("1"))>>,
            <<MEndLine>> \o PropertyLines),
     \* 2: C, H, O with a double and a triple bond, not flat
     TextOf(E("3"), E("2"), <<CarbonLine, HydrogenLine, OxygenLine>>,
            <<BondLine(E("1"), E("2"), E("2")), BondLine(E("2"), E("3"), E("3"))>>,
            <<MEndLine>> \o PropertyLines),
     \* 3: an atom count of 0
     TextOf(E("0"), E("0"), <<>>, <<>>, <<MEndLine>> \o PropertyLines),
     \* 4: an atom count that is not a number
     TextOf(Junk, E("1"), <<CarbonLine>>, <<>>, <<MEndLine>> \o PropertyLines),
     \* 5: an atom line whose x is not a number
     TextOf(E("2"), E("1"), <<GarbledLine, CarbonLine>>, <<BondLine(E("1"), E("2"), E("1"))>>,
            <<MEndLine>> \o PropertyLines),
     \* 6: two atoms announced, the text ends after the first
     << [k \in 1..200 |-> "7"], MEndLine, <<>>, CountsLine(E("2"), E("0")), CarbonLine >>,
     \* 7: no terminator
     TextOf(E("1"), E("0"), <<CarbonLine>>, <<>>, PropertyLines),
     \* 8: shorter than the minimum length
     TextOf(E("1"), E("0"), <<CarbonLine>>, <<>>, TrailerLines) >>

(***************************************************************************)
(* The store and the canvas before any molecule is loaded.                 *)
(***************************************************************************)
StoreInit ==
  [moleculeData |-> <<>>, loading |-> FALSE, error |-> "", generationStep |-> "",
   generationProgress |-> 0, showLabels |-> TRUE]

\* initializeScene (lines 244-323): no molecule group, camera at (0, 0, 15)
SceneInit == [group |-> <<>>, cameraZ |-> 15000, target |-> Vec(0, 0, 0)]

\* store.ts lines 44-56
setMoleculeData(st, data)      == [st EXCEPT !.moleculeData = <<data>>]
setLoading(st, loading)        == [st EXCEPT !.loading = loading]
setError(st, error)            == [st EXCEPT !.error = error]
setGenerationStep(st, step)    == [st EXCEPT !.generationStep = step]
setGenerationProgress(st, n)   == [st EXCEPT !.generationProgress = n]
setShowLabels(st, show)        == [st EXCEPT !.showLabels = show]
clearMolecule(st) ==
  [st EXCEPT !.moleculeData = <<>>, !.error = "", !.generationStep = "",
             !.generationProgress = 0]

\* a variant of lines 527-550 that leaves the group in the scene
clearSceneKeeping(sc) == sc

\* canvas-3d.tsx lines 527-550
clearScene(sc) == [sc EXCEPT !.group = <<>>]

\* canvas-3d.tsx lines 720-726: the effect on [moleculeData, showLabels], scene part
EffectScene(st, sc) ==
  IF st.moleculeData # <<>>
  THEN renderMolecule(st.moleculeData[1], st.showLabels)
  ELSE clearScene(sc)

\* the same effect, store part: what the render leaves in the model it was given
EffectStore(st) ==
  IF st.moleculeData # <<>>
  THEN [st EXCEPT !.moleculeData[1].atoms =
                     AtomsAfterRender(@, calculateSpacingFactor(Len(@)))]
  ELSE st

\* canvas-3d.tsx line 226
ExportRadius(data, element) ==
  IF element \in DOMAIN data.elements
  THEN NScale(data.elements[element].radius, RenderRadiusNum, 10)
  ELSE FallbackRadius

\* a variant of lines 213-220 that never looks at the scene
ScenePositionOfModel(group, atom, index) == atom.position

\* canvas-3d.tsx lines 213-220: the position of the last sphere tagged with the index
ScenePosition(group, atom, index) ==
  LET hits == { k \in 1..Len(group.children) :
                  group.children[k].kind = "sphere" /\ group.children[k].atomIndex = index }
  IN  IF hits = {} THEN atom.position
      ELSE group.children[CHOOSE k \in hits : \A j \in hits : j <= k].position

\* canvas-3d.tsx lines 207-241: << >> for null
getEnhancedSceneData(st, sc) ==
  IF st.moleculeData = <<>> \/ sc.group = <<>> THEN <<>>
  ELSE LET data == st.moleculeData[1]
       IN  << [formula |-> data.formula, elements |-> data.elements, bonds |-> data.bonds,
               atoms |-> [k \in 1..Len(data.atoms) |->
                            [id |-> data.atoms[k].id, element |-> data.atoms[k].element,
                             position |-> ScenePosition(sc.group[1], data.atoms[k], k - 1),
                             radius |-> ExportRadius(data, data.atoms[k].element),
                             color |-> IF data.atoms[k].element \in DOMAIN data.elements
                                       THEN data.elements[data.atoms[k].element].color
                                       ELSE DefaultColor]]] >>

\* a variant of the extraction that stores the scene position in the atom it reads
AtomsMovedToScene(atoms, group) ==
  IF group = << >> THEN atoms
  ELSE [k \in 1..Len(atoms) |->
          [atoms[k] EXCEPT !.position = ScenePosition(group[1], atoms[k], k - 1)]]

\* the atoms of the model once getEnhancedSceneData has run: it spreads each atom into a
\* new object (lines 223-228)
AtomsAfterExtract(atoms, group) == atoms

(***************************************************************************)
(* fetchMoleculeData (src/app/page.tsx lines 231-352).  An invocation is a *)
(* record: pc names the await it is suspended at.                          *)
(***************************************************************************)
MinStructureLength == 200

RECURSIVE TextLength(_)
\* sdfData.length: the characters of the lines and the newlines between them
TextLength(lines) ==
  IF lines = <<>> THEN 0
  ELSE IF Len(lines) = 1 THEN Len(lines[1])
  ELSE Len(Head(lines)) + 1 + TextLength(Tail(lines))

\* sdfData.includes('END')
IncludesEND(lines) ==
  \E k \in 1..Len(lines) : \E i \in 1..(Len(lines[k]) - 2) :
     SubSeq(lines[k], i, i + 2) = <<"E", "N", "D">>

\* a variant of the test on line 272 that looks at the length only
StructureValidByLength(lines) == ~(TextLength(lines) < MinStructureLength)

\* line 272
StructureValid(lines) == ~(TextLength(lines) < MinStructureLength \/ ~IncludesEND(lines))

\* a variant of lines 343-351 without the finally block
FailWithoutReset(st, message) == setError(st, message)

\* a variant of lines 343-351 whose catch also drops the model
FailWithClearing(st, message) ==
  [setGenerationProgress(setGenerationStep(setLoading(
     setError(st, message), FALSE), ""), 0) EXCEPT !.moleculeData = << >>]

\* lines 343-351: catch and finally
FailWith(st, message) ==
  setGenerationProgress(setGenerationStep(setLoading(
    setError(st, message), FALSE), ""), 0)

\* a variant of the test on line 300 that lets every model through
NoAtomsIgnored(model) == FALSE

\* line 300
NoAtoms(model) == Len(model.atoms) = 0

\* lines 309-315
Enhanced(model, req) ==
  [formula |-> model.formula, elements |-> model.elements, atoms |-> model.atoms,
   bonds |-> model.bonds, cid |-> req.selectedCID,
   educationalData |-> req.educationalData,
   searchQuery |-> req.query, searchMode |-> req.mode]

\* the formulas line 298 is called with
Formulas == {"H2O", "C9H8O4", "aspirin", "C2H6O"}

\* the calls of the parser that line 298 makes in the behaviours below
ParseCalls ==
  (SceneTexts \X {"X"} \X JitterSeqs)
    \cup ({ SdfResponses[n] : n \in 1..Len(SdfResponses) } \X Formulas \X JitterSeqs)

\* each of those calls, run once
ParseRuns == [c \in ParseCalls |-> parseSDF2DTo3D(c[1], c[2], c[3])] @@ << >>

\* line 298: parseSDF2DTo3D(sdfData, actualFormula)
ParseCall(lines, formula, rnd) == ParseRuns[<<lines, formula, rnd>>]

\* lines 297-351: from the parse to the end of the invocation
FinishFetch(st, req, lines, formula, rnd) ==
  LET r == ParseCall(lines, formula, rnd)
  IN  IF r.thrown
      THEN [store |-> FailWith(st, "Failed to load molecule: TypeError"), ok |-> FALSE]
      ELSE IF NoAtoms(r.model)
      THEN [store |-> FailWith(st, "Failed to load molecule: No atoms found in molecular structure"),
            ok |-> FALSE]
      ELSE [store |-> setGenerationProgress(setGenerationStep(setLoading(
                        setMoleculeData(st, Enhanced(r.model, req)), FALSE), ""), 0),
            ok |-> TRUE]

(***************************************************************************)
(* Runs of parseSDF2DTo3D on every generated text.                         *)
(***************************************************************************)
InitParse ==
  /\ sdfText \in ParserTexts
  /\ ps = ParserIdle
  /\ store = StoreInit
  /\ requests = <<>>
  /\ scene = SceneInit
  /\ sceneData = <<>>
  /\ calc = <<>>
  /\ apiWakeup = <<>>

PBegin ==
  /\ ps.pc = "idle"
  /\ ps' = ParseBegin(sdfText, "X", <<500>>)
  /\ UNCHANGED <<sdfText, store, requests, scene, sceneData, calc, apiWakeup>>

PAtom ==
  /\ ps.pc = "atoms"
  /\ ps' = ParseAtomStep(sdfText, ps)
  /\ UNCHANGED <<sdfText, store, requests, scene, sceneData, calc, apiWakeup>>

PBond ==
  /\ ps.pc = "bonds"
  /\ ps' = ParseBondStep(sdfText, ps)
  /\ UNCHANGED <<sdfText, store, requests, scene, sceneData, calc, apiWakeup>>

PDetect ==
  /\ ps.pc = "detect"
  /\ ps' = ParseDetect(ps)
  /\ UNCHANGED <<sdfText, store, requests, scene, sceneData, calc, apiWakeup>>

PZ ==
  /\ ps.pc = "zsynth"
  /\ \E r \in JitterValues : ps' = ParseZStep(ps, r)
  /\ UNCHANGED <<sdfText, store, requests, scene, sceneData, calc, apiWakeup>>

PScale ==
  /\ ps.pc = "scale"
  /\ ps' = ParseScale(ps)
  /\ UNCHANGED <<sdfText, store, requests, scene, sceneData, calc, apiWakeup>>

NextParse == PBegin \/ PAtom \/ PBond \/ PDetect \/ PZ \/ PScale

SpecParse == InitParse /\ [][NextParse]_vars

(***************************************************************************)
(* The canvas: one text, loaded, relabelled, cleared and exported.         *)
(***************************************************************************)
DirectRequest ==
  [pc |-> "parse", query |-> "direct", mode |-> "name", selectedCID |-> 1,
   educationalData |-> "none", sdfData |-> 0, ok |-> FALSE]

InitScene ==
  /\ sdfText \in SceneTexts
  /\ ps = ParserIdle
  /\ store = StoreInit
  /\ requests = <<>>
  /\ scene = SceneInit
  /\ sceneData = <<>>
  /\ calc = <<>>
  /\ apiWakeup = <<>>

\* page.tsx lines 298-351 followed by the canvas effect
LoadMolecule ==
  /\ \E f \in { FinishFetch(store, DirectRequest, sdfText, "X", rnd) : rnd \in JitterSeqs } :
       IF f.ok
       THEN store' = EffectStore(f.store) /\ scene' = EffectScene(f.store, scene)
       ELSE store' = f.store /\ scene' = scene
  /\ UNCHANGED <<sdfText, ps, requests, sceneData, calc, apiWakeup>>

\* the Labels button of the header (api-loading-screen.tsx line 470) and the effect
ToggleLabels ==
  /\ store.moleculeData # <<>>
  /\ LET st == setShowLabels(store, ~store.showLabels)
     IN  store' = EffectStore(st) /\ scene' = EffectScene(st, scene)
  /\ UNCHANGED <<sdfText, ps, requests, sceneData, calc, apiWakeup>>

\* the Clear button of the header (api-loading-screen.tsx line 488) and the effect
ClearMolecule ==
  /\ store.moleculeData # <<>>
  /\ LET st == clearMolecule(store)
     IN  store' = EffectStore(st) /\ scene' = EffectScene(st, scene)
  /\ UNCHANGED <<sdfText, ps, requests, sceneData, calc, apiWakeup>>

\* download-modal.tsx lines 52-61
ExtractSceneData ==
  /\ store.moleculeData # <<>>
  /\ sceneData' = getEnhancedSceneData(store, scene)
  /\ store' = [store EXCEPT !.moleculeData[1].atoms = AtomsAfterExtract(@, scene.group)]
  /\ UNCHANGED <<sdfText, ps, requests, scene, calc, apiWakeup>>

NextScene == LoadMolecule \/ ToggleLabels \/ ClearMolecule \/ ExtractSceneData

SpecScene == InitScene /\ [][NextScene]_vars

(***************************************************************************)
(* The page: overlapping invocations of fetchMoleculeData, the store and   *)
(* the canvas.                                                             *)
(***************************************************************************)
Invocations == { [query |-> "aspirin", mode |-> "name"], [query |-> "C2H6O", mode |-> "formula"] }

Init ==
  /\ sdfText = <<>>
  /\ ps = ParserIdle
  /\ store = StoreInit
  /\ requests = <<>>
  /\ scene = SceneInit
  /\ sceneData = <<>>
  /\ calc = <<>>
  /\ apiWakeup = <<>>

\* lines 231-243: up to the await of searchMolecules
StartFetch ==
  /\ Len(requests) < MaxRequests
  /\ \E inv \in Invocations :
       requests' = Append(requests,
         [pc |-> "search", query |-> inv.query, mode |-> inv.mode, selectedCID |-> 0,
          educationalData |-> "none", sdfData |-> 0, ok |-> FALSE])
  /\ store' = setGenerationProgress(setGenerationStep(
                setGenerationProgress(setGenerationStep(setError(setLoading(store, TRUE), ""),
                  ""), 0), "Searching PubChem database..."), 15)
  /\ UNCHANGED <<sdfText, ps, scene, sceneData, calc, apiWakeup>>

\* invocation k returns; n is the structure text it holds, 0 for none
Settle(k, n, ok) == [requests EXCEPT ![k].pc = "done", ![k].sdfData = n, ![k].ok = ok]

\* lines 243-259: searchMolecules answers
SearchDone ==
  \E k \in 1..Len(requests) :
    /\ requests[k].pc = "search"
    /\ \E answer \in {"cids", "none", "error"} :
         IF answer = "cids"
         THEN /\ store' = setGenerationProgress(setGenerationStep(store,
                             "Fetching comprehensive molecular data..."), 35)
              /\ requests' = [requests EXCEPT ![k].pc = "edu", ![k].selectedCID = 1]
         ELSE /\ store' = FailWith(store,
                             IF answer = "none" THEN "Failed to load molecule: No compounds found"
                             ELSE "Failed to load molecule: Search failed")
              /\ requests' = Settle(k, 0, FALSE)
    /\ UNCHANGED <<sdfText, ps, scene, sceneData, calc, apiWakeup>>

\* lines 259-270: fetchEducationalData answers or throws
EduDone ==
  \E k \in 1..Len(requests) :
    /\ requests[k].pc = "edu"
    /\ \E answer \in {"full", "none"} :
         requests' = [requests EXCEPT ![k].pc = "sdf", ![k].educationalData = answer]
    /\ store' = setGenerationProgress(setGenerationStep(store,
                   "Downloading 3D molecular structure..."), 55)
    /\ UNCHANGED <<sdfText, ps, scene, sceneData, calc, apiWakeup>>

\* the outcome of lines 297-351 for invocation k, with the canvas effect
Finish(k, n, formula) ==
  \E f \in { FinishFetch(store, requests[k], SdfResponses[n], formula, rnd) : rnd \in JitterSeqs } :
    /\ requests' = Settle(k, n, f.ok)
    /\ IF f.ok
       THEN store' = EffectStore(f.store) /\ scene' = EffectScene(f.store, scene)
       ELSE store' = f.store /\ scene' = scene

\* lines 270-298: fetchStructureData answers or throws
StructureDone ==
  \E k \in 1..Len(requests) :
    /\ requests[k].pc = "sdf"
    /\ \/ /\ store' = FailWith(store, "Failed to load molecule: Structure fetch failed")
          /\ requests' = Settle(k, 0, FALSE)
          /\ scene' = scene
       \/ \E n \in 1..Len(SdfResponses) :
            IF ~StructureValid(SdfResponses[n])
            THEN /\ store' = FailWith(store, "Failed to load molecule: Invalid structure data")
                 /\ requests' = Settle(k, n, FALSE)
                 /\ scene' = scene
            ELSE IF requests[k].educationalData = "full"
            THEN Finish(k, n, "C9H8O4")
            ELSE /\ store' = setGenerationStep(setGenerationProgress(setGenerationStep(store,
                                "Converting to 3D model..."), 75), "Fetching molecular formula...")
                 /\ requests' = [requests EXCEPT ![k].pc = "formula", ![k].sdfData = n]
                 /\ scene' = scene
    /\ UNCHANGED <<sdfText, ps, sceneData, calc, apiWakeup>>

\* lines 287-298: the formula request answers, is not ok, or throws
FormulaDone ==
  \E k \in 1..Len(requests) :
    /\ requests[k].pc = "formula"
    /\ \E formula \in {"H2O", requests[k].query} :
         Finish(k, requests[k].sdfData, formula)
    /\ UNCHANGED <<sdfText, ps, sceneData, calc, apiWakeup>>

Next ==
  \/ StartFetch \/ SearchDone \/ EduDone \/ StructureDone \/ FormulaDone
  \/ ToggleLabels \/ ClearMolecule

Spec == Init /\ [][Next]_vars

\* an invocation waits for the formula request of lines 287-296
AwaitsFormula == \E k \in 1..Len(requests) : requests[k].pc = "formula"

\* the same behaviours when every awaited network call settles: an action that resumes
\* an invocation is taken if it stays enabled.  FormulaDone is enabled exactly when
\* AwaitsFormula holds, and each of its steps ends an invocation, of which there are at
\* most MaxRequests, so its weak fairness is that AwaitsFormula is false again and again.
SpecSettling ==
  /\ Init /\ [][Next]_vars
  /\ WF_vars(SearchDone) /\ WF_vars(EduDone) /\ WF_vars(StructureDone)
  /\ []<>~AwaitsFormula

(***************************************************************************)
(* Direct calls of calculateSpacingFactor.                                 *)
(***************************************************************************)
MaxAtomCount == 450    \* atom counts 0..MaxAtomCount are all tried
LargeAtomCounts == {1000, 50000, 2000000}
AtomCounts == (0..MaxAtomCount) \cup LargeAtomCounts

InitSpacing ==
  /\ sdfText = <<>>
  /\ ps = ParserIdle
  /\ store = StoreInit
  /\ requests = <<>>
  /\ scene = SceneInit
  /\ sceneData = <<>>
  /\ calc = <<>>
  /\ apiWakeup = <<>>

\* canvas-3d.tsx line 568 with any data.atoms.length
CallSpacingFactor ==
  /\ \E n \in AtomCounts :
       calc' = [op |-> "calculateSpacingFactor", arg |-> n,
                result |-> calculateSpacingFactor(n)]
  /\ UNCHANGED <<sdfText, ps, store, requests, scene, sceneData, apiWakeup>>

NextSpacing == CallSpacingFactor

SpecSpacing == InitSpacing /\ [][NextSpacing]_vars

(***************************************************************************)
(* The canvas handed any model: parsed models, and parsed models with an   *)
(* element entry, one atom or all atoms taken away.                        *)
(***************************************************************************)
\* the parsed models of the texts with a full bond block
BaseModels ==
  { ParseRuns[<<t, "X", [k \in 1..MaxAtomLines |-> 0]>>].model :
      t \in { TextOf(ToDecimal(Len(as)), ToDecimal(Len(bs)), as, bs, TrailerLines) :
                as \in SeqsUpTo(SceneAtomChoices, MaxAtomLines) \ {<<>>},
                bs \in { cs \in SceneBondBlocks : Len(cs) = MaxBondLines } } }

Restrict(f, S) == [x \in S |-> f[x]]
WithoutElement(m, e) == [m EXCEPT !.elements = Restrict(@, DOMAIN @ \ {e})]
WithoutAtom(m, k) ==
  [m EXCEPT !.atoms = SubSeq(@, 1, k - 1) \o SubSeq(@, k + 1, Len(@))]
WithoutAtoms(m) == [m EXCEPT !.atoms = <<>>]
\* the first atom 32 units from the origin, as returned for an x field of 20.0000
WithFarAtom(m) == [m EXCEPT !.atoms[1].position[1] = 32 * Unit]

RenderInputs ==
  BaseModels
    \cup { WithoutElement(m, m.atoms[1].element) : m \in BaseModels }
    \cup { WithoutAtom(m, 1) : m \in BaseModels }
    \cup { WithoutAtoms(m) : m \in BaseModels }
    \cup { WithFarAtom(m) : m \in BaseModels }

InitRender ==
  /\ sdfText = <<>>
  /\ ps = ParserIdle
  /\ \E md \in {<<>>} \cup { <<m>> : m \in RenderInputs }, labels \in BOOLEAN :
       store = [StoreInit EXCEPT !.moleculeData = md, !.showLabels = labels]
  /\ requests = <<>>
  /\ scene = SceneInit
  /\ sceneData = <<>>
  /\ calc = <<>>
  /\ apiWakeup = <<>>

\* canvas-3d.tsx lines 720-726: the effect runs on the data in the store
RunEffect ==
  /\ scene' = EffectScene(store, scene)
  /\ store' = EffectStore(store)
  /\ calc' = [op |-> "effect", arg |-> store.showLabels, result |-> <<>>]
  /\ UNCHANGED <<sdfText, ps, requests, sceneData, apiWakeup>>

\* canvas-3d.tsx lines 207-241: the imperative handle is called
CallGetEnhancedSceneData ==
  /\ sceneData' = getEnhancedSceneData(store, scene)
  /\ store' = IF store.moleculeData = <<>> THEN store
              ELSE [store EXCEPT !.moleculeData[1].atoms = AtomsAfterExtract(@, scene.group)]
  /\ calc' = [op |-> "getEnhancedSceneData", arg |-> scene.group # <<>>,
              result |-> sceneData']
  /\ UNCHANGED <<sdfText, ps, requests, scene, apiWakeup>>

\* canvas-3d.tsx lines 310-322: one frame of the animation loop
Animate ==
  /\ scene' = ControlsUpdate(scene)
  /\ calc' = [op |-> "update", arg |-> scene.cameraZ, result |-> scene'.cameraZ]
  /\ UNCHANGED <<sdfText, ps, store, requests, sceneData, apiWakeup>>

NextRender == RunEffect \/ CallGetEnhancedSceneData \/ Animate

SpecRender == InitRender /\ [][NextRender]_vars

(***************************************************************************)
(* apiCall (src/lib/api.ts lines 24-69 and 216-307).  calc holds the locals *)
(* of one call: version 1 is the function of line 24, version 2 that of    *)
(* line 216; pc is "fetch" or "delay" while the call is suspended at that  *)
(* await, "returned", "thrown", or "fellout" once the for loop has ended.  *)
(***************************************************************************)
MaxRetries == 3

\* how a request settles: a status, a body that does not parse, an abort by the timer of
\* line 223, or a rejection of fetch
ApiOutcomes == {"ok", "badjson", "429", "404", "5xx", "4xx", "timeout", "network"}

\* the error an attempt raises
ApiError(outcome) ==
  CASE outcome = "429"     -> "Rate limit exceeded. This data may not be available for this compound."
    [] outcome = "404"     -> "Data not available for this compound"
    [] outcome = "5xx"     -> "Server error occurred"
    [] outcome = "4xx"     -> "API Error"
    [] outcome = "timeout" -> "Request timed out - the API may be experiencing cold start delays"
    [] outcome = "badjson" -> "SyntaxError"
    [] OTHER               -> "TypeError"

\* a variant of the catch blocks that waits and goes on whatever the attempt
ApiCatchRetrying(c, error) == [c EXCEPT !.pc = "delay"]

\* lines 64-69 and 300-306: the catch block for an error that is not an abort
ApiCatch(c, error) ==
  IF c.attempt = c.retries THEN [c EXCEPT !.pc = "thrown", !.error = error] ELSE [c EXCEPT !.pc = "delay"]

\* lines 30-69 and 219-306: from the answer of fetch to the next await or the end
ApiSettle(c, outcome) ==
  LET d == [c EXCEPT !.last = outcome]
      \* "if (attempt < retries) { await delay(..); continue } else { throw .. }" in the try
      waitOrThrow == IF d.attempt < d.retries THEN [d EXCEPT !.pc = "delay"]
                     ELSE ApiCatch(d, ApiError(outcome))
  IN  CASE outcome = "ok"      -> [d EXCEPT !.pc = "returned"]
        [] outcome = "429"     -> waitOrThrow
        [] outcome = "5xx"     -> IF d.version = 2 THEN waitOrThrow
                                  ELSE ApiCatch(d, ApiError(outcome))
        [] outcome = "timeout" -> IF d.attempt < d.retries THEN [d EXCEPT !.pc = "delay"]
                                  ELSE [d EXCEPT !.pc = "thrown", !.error = ApiError(outcome)]
        [] outcome = "badjson" -> IF d.version = 2 THEN ApiCatch(d, ApiError(outcome))
                                  ELSE [d EXCEPT !.pc = "thrown", !.error = ApiError(outcome)]
        [] OTHER               -> ApiCatch(d, ApiError(outcome))

\* the delay is over: attempt++ and the loop test
ApiResume(c) ==
  IF c.attempt + 1 <= c.retries
  THEN [c EXCEPT !.pc = "fetch", !.attempt = @ + 1, !.fetches = @ + 1]
  ELSE [c EXCEPT !.pc = "fellout", !.attempt = @ + 1]

InitApi ==
  /\ sdfText = <<>>
  /\ ps = ParserIdle
  /\ store = StoreInit
  /\ requests = <<>>
  /\ scene = SceneInit
  /\ sceneData = <<>>
  /\ apiWakeup = <<>>
  /\ \E version \in {1, 2}, retries \in 0..MaxRetries :
       calc = [op |-> "apiCall", version |-> version, retries |-> retries, attempt |-> 0,
               pc |-> "fetch", fetches |-> 1, last |-> "", error |-> "", history |-> <<>>]

\* the request of the current attempt settles; version 1 sets no timer
ApiFetchSettles ==
  /\ calc.pc = "fetch"
  /\ \E outcome \in ApiOutcomes :
       /\ calc.version = 1 => outcome # "timeout"
       /\ calc' = [ApiSettle(calc, outcome) EXCEPT !.history = Append(@, outcome)]
  /\ UNCHANGED <<sdfText, ps, store, requests, scene, sceneData, apiWakeup>>

ApiDelaySettles ==
  /\ calc.pc = "delay"
  /\ calc' = ApiResume(calc)
  /\ UNCHANGED <<sdfText, ps, store, requests, scene, sceneData, apiWakeup>>

NextApi == ApiFetchSettles \/ ApiDelaySettles

\* every request and every delay settles
SpecApi == InitApi /\ [][NextApi]_vars /\ WF_vars(ApiFetchSettles) /\ WF_vars(ApiDelaySettles)

(***************************************************************************)
(* useApiWakeup(true) as page.tsx uses it (src/hooks/use-api-wakeup.tsx,   *)
(* src/app/page.tsx lines 28-71 and 402-407).  A step is one task of the   *)
(* event loop: the code from the answer of a request or the firing of a    *)
(* timer up to the next request or timer, followed by the page's effects.  *)
(* The unmount of the page and resetState, which the page never calls, are *)
(* not part of the runs.                                                   *)
(***************************************************************************)
MaxRetryAttempts == 3

\* what checkAndWakeUpAPI resolves with (src/lib/api.ts lines 313-353; it never rejects):
\* ok within 3 s, ok later, a status that is not ok, the abort after 3 s, a rejected fetch
CheckResults == {"fast", "slow", "status", "timeout", "network"}

\* what the race of wakeUpAPI and the 45 s timer yields (lines 250-255)
WakeResults == {"fast", "slow", "failed", "raceTimeout"}

\* lines 81-97, on the results of checkAndWakeUpAPI: 'Timeout - likely cold start' holds
\* 'cold start', 'Failed to fetch' holds 'fetch', 'Status 500' holds neither
determineApiStatus(r) ==
  CASE r = "fast"    -> "awake"
    [] r = "slow"    -> "sleeping"
    [] r = "timeout" -> "sleeping"
    [] r = "network" -> "down"
    [] OTHER         -> "error"

\* lines 136-144: checkApiStatus up to its await
CheckStart(st) == [st EXCEPT !.isLoading = TRUE, !.apiStatus = "checking"]

\* lines 148-164: checkApiStatus after its await; the catch of lines 165-182 is never entered
CheckDone(st, r) ==
  [st EXCEPT !.isAwake = r \in {"fast", "slow"}, !.isLoading = FALSE,
             !.shouldBlockApp = FALSE, !.apiStatus = determineApiStatus(r)]

\* lines 189-203: wakeUpApiManually up to its first await
WakeStart(st) ==
  [st EXCEPT !.isWakingUp = TRUE, !.isLoading = TRUE, !.shouldBlockApp = TRUE,
             !.apiStatus = "checking"]

\* lines 205-298: wakeUpApiManually from the await it is suspended at (pc) to the next one,
\* or to its return value ("true" / "false")
WakeStep(st, pc, x) ==
  LET end(awake, status) ==
        [st EXCEPT !.isAwake = awake, !.isWakingUp = FALSE, !.isLoading = FALSE,
                   !.shouldBlockApp = ~awake, !.apiStatus = status]
  IN  CASE pc = "quickCheck" ->
             IF x = "fast" THEN [state |-> end(TRUE, "awake"), pc |-> "true"]
             ELSE IF determineApiStatus(x) = "down"
                  THEN [state |-> end(FALSE, "down"), pc |-> "false"]
                  ELSE [state |-> [st EXCEPT !.apiStatus = "sleeping"], pc |-> "pause"]
        [] pc = "pause" -> [state |-> st, pc |-> "wakeUp"]
        [] OTHER ->
             IF x \in {"fast", "slow"}
             THEN [state |-> end(TRUE, IF x = "fast" THEN "awake" ELSE "sleeping"),
                   pc |-> "true"]
             ELSE [state |-> end(FALSE, IF x = "raceTimeout" THEN "sleeping" ELSE "down"),
                   pc |-> "false"]

WakeInputs(pc) ==
  IF pc = "quickCheck" THEN CheckResults ELSE IF pc = "pause" THEN {""} ELSE WakeResults

\* lines 326-350
scheduleRetry(w, attempt) ==
  IF attempt >= MaxRetryAttempts
  THEN [w EXCEPT !.state.shouldBlockApp = TRUE, !.init = "done"]
  ELSE [w EXCEPT !.init = "retryWait", !.retryAttempt = attempt]

\* page.tsx lines 35-39 and 403-407, run after the render
PageEffects(w) ==
  IF w.state.shouldBlockApp /\ ~w.showApiModal THEN [w EXCEPT !.showApiModal = TRUE]
  ELSE IF w.state.apiStatus = "awake" /\ w.showApiModal THEN [w EXCEPT !.showApiModal = FALSE]
  ELSE w

\* after the mount: initializeApi has set its 55 s timer and is suspended in checkApiStatus
InitWakeup ==
  /\ sdfText = <<>>
  /\ ps = ParserIdle
  /\ store = StoreInit
  /\ requests = <<>>
  /\ scene = SceneInit
  /\ sceneData = <<>>
  /\ calc = << >>
  /\ \E mode \in {"development", "production"} :
       apiWakeup = PageEffects(
         [state |-> CheckStart([isAwake |-> FALSE, isWakingUp |-> FALSE, isLoading |-> TRUE,
                                apiStatus |-> "unknown", shouldBlockApp |-> TRUE]),
          showApiModal |-> FALSE, mode |-> mode, init |-> "check", retryAttempt |-> 0,
          manual |-> "idle", timeoutRef |-> TRUE, skipped |-> FALSE, dismissed |-> FALSE])

\* lines 379-426: the first checkApiStatus of initializeApi resolves
InitCheckDone ==
  /\ apiWakeup.init = "check"
  /\ \E r \in CheckResults :
       LET w == [apiWakeup EXCEPT !.state = CheckDone(@, r)]
       IN  apiWakeup' = PageEffects(
             IF w.state.isAwake THEN [w EXCEPT !.timeoutRef = FALSE, !.init = "done"]
             ELSE IF w.mode = "development"
                  THEN [w EXCEPT !.state.shouldBlockApp = TRUE, !.init = "done"]
                  ELSE [w EXCEPT !.state = WakeStart(@), !.init = "quickCheck"])
  /\ UNCHANGED <<sdfText, ps, store, requests, scene, sceneData, calc>>

\* lines 407-418: an await of the wakeUpApiManually called by initializeApi settles
InitWakeSettles ==
  /\ apiWakeup.init \in {"quickCheck", "pause", "wakeUp"}
  /\ \E x \in WakeInputs(apiWakeup.init) :
       LET n == WakeStep(apiWakeup.state, apiWakeup.init, x)
           w == [apiWakeup EXCEPT !.state = n.state]
       IN  apiWakeup' = PageEffects(
             IF n.pc = "true" THEN [w EXCEPT !.timeoutRef = FALSE, !.init = "done"]
             ELSE IF n.pc = "false" THEN scheduleRetry(w, 0)
             ELSE [w EXCEPT !.init = n.pc])
  /\ UNCHANGED <<sdfText, ps, store, requests, scene, sceneData, calc>>

\* lines 342-344: the retry timer fires
RetryFires ==
  /\ apiWakeup.init = "retryWait"
  /\ apiWakeup' = PageEffects([apiWakeup EXCEPT !.state = CheckStart(@), !.init = "retryCheck"])
  /\ UNCHANGED <<sdfText, ps, store, requests, scene, sceneData, calc>>

\* lines 344-348: the checkApiStatus of a retry resolves
RetryCheckDone ==
  /\ apiWakeup.init = "retryCheck"
  /\ \E r \in CheckResults :
       LET w == [apiWakeup EXCEPT !.state = CheckDone(@, r)]
       IN  apiWakeup' = PageEffects(
             IF w.state.isAwake THEN [w EXCEPT !.init = "done"]
             ELSE scheduleRetry(w, w.retryAttempt + 1))
  /\ UNCHANGED <<sdfText, ps, store, requests, scene, sceneData, calc>>

\* lines 361-373: the 55 s timer of initializeApi fires
TimeoutFires ==
  /\ apiWakeup.timeoutRef
  /\ apiWakeup' = PageEffects(
       [apiWakeup EXCEPT !.state.isLoading = FALSE, !.state.isWakingUp = FALSE,
                         !.state.apiStatus = "error", !.timeoutRef = FALSE])
  /\ UNCHANGED <<sdfText, ps, store, requests, scene, sceneData, calc>>

\* page.tsx lines 61-65 with forceSkip (lines 100-112); its buttons are in the modal
handleForceSkip ==
  /\ apiWakeup.showApiModal
  /\ apiWakeup' = PageEffects(
       [apiWakeup EXCEPT !.state.isLoading = FALSE, !.state.isWakingUp = FALSE,
                         !.state.shouldBlockApp = FALSE, !.state.apiStatus = "unknown",
                         !.showApiModal = FALSE, !.skipped = TRUE, !.dismissed = TRUE])
  /\ UNCHANGED <<sdfText, ps, store, requests, scene, sceneData, calc>>

\* page.tsx lines 68-71; the button is in the modal (lines 656-660), one wake-up of the
\* user at a time
handleRetryApi ==
  /\ apiWakeup.showApiModal
  /\ apiWakeup.state.apiStatus \in {"down", "error"}
  /\ ~(apiWakeup.state.isLoading \/ apiWakeup.state.isWakingUp)
  /\ apiWakeup.manual = "idle"
  /\ apiWakeup' = PageEffects(
       [apiWakeup EXCEPT !.state = WakeStart(@), !.manual = "quickCheck",
                         !.dismissed = FALSE])
  /\ UNCHANGED <<sdfText, ps, store, requests, scene, sceneData, calc>>

\* an await of the wakeUpApiManually called by handleRetryApi settles
ManualWakeSettles ==
  /\ apiWakeup.manual # "idle"
  /\ \E x \in WakeInputs(apiWakeup.manual) :
       LET n == WakeStep(apiWakeup.state, apiWakeup.manual, x)
       IN  apiWakeup' = PageEffects(
             [apiWakeup EXCEPT !.state = n.state,
                               !.manual = IF n.pc \in {"true", "false"} THEN "idle" ELSE n.pc])
  /\ UNCHANGED <<sdfText, ps, store, requests, scene, sceneData, calc>>

NextWakeup ==
  \/ InitCheckDone
  \/ InitWakeSettles
  \/ RetryFires
  \/ RetryCheckDone
  \/ TimeoutFires
  \/ handleForceSkip
  \/ handleRetryApi
  \/ ManualWakeSettles

SpecWakeup == InitWakeup /\ [][NextWakeup]_vars

(***************************************************************************)
(* The connection-table export (src/components/download-modal.tsx lines    *)
(* 393-424) and the parse of its text.                                     *)
(***************************************************************************)
\* Number.prototype.toFixed(4) of a fixed-point number
ToFixed4(n) ==
  IF IsNaN(n) THEN <<"N", "a", "N">>
  ELSE LET f == Abs(n) % Unit
       IN  (IF n < 0 THEN <<"-">> ELSE <<>>) \o ToDecimal(Abs(n) \div Unit) \o <<".">>
             \o <<DigitChars[(f \div 100) + 1], DigitChars[((f \div 10) % 10) + 1],
                  DigitChars[(f % 10) + 1], "0">>

\* n times "  0"
ZeroFields(n) == [k \in 1..(3 * n) |-> IF k % 3 = 0 THEN "0" ELSE " "]

\* sceneData.atoms.findIndex(a => a.id === id)
FindIndex(atoms, id) ==
  LET hits == { k \in 1..Len(atoms) : atoms[k].id = id }
  IN  IF hits = {} THEN -1 ELSE (CHOOSE k \in hits : \A j \in hits : k <= j) - 1

\* lines 413-417
ExportBondLine(atoms, bond) ==
  PadStart(ToDecimal(FindIndex(atoms, bond.atom1) + 1), 3)
    \o PadStart(ToDecimal(FindIndex(atoms, bond.atom2) + 1), 3)
    \o <<" ", " ",
         IF bond.type = "double" THEN "2" ELSE IF bond.type = "triple" THEN "3" ELSE "1">>
    \o ZeroFields(4)

\* lines 402-408
ExportAtomLine(atom) ==
  PadStart(ToFixed4(atom.position[1]), 10) \o PadStart(ToFixed4(atom.position[2]), 10)
    \o PadStart(ToFixed4(atom.position[3]), 10) \o <<" ">> \o PadEnd(atom.element, 3)
    \o <<" ", "0">> \o ZeroFields(11)

\* lines 393-424: the text as its lines; each of the three header lines is one item
generateSDFFromScene(data) ==
  << <<data.formula>>, <<"  moleXa Generated (from 3D Scene)">>, <<"  Generated on ">> >>
    \o << PadStart(ToDecimal(Len(data.atoms)), 3) \o PadStart(ToDecimal(Len(data.bonds)), 3)
            \o ZeroFields(8) \o <<"9", "9", "9", " ", "V", "2", "0", "0", "0">> >>
    \o [k \in 1..Len(data.atoms) |-> ExportAtomLine(data.atoms[k])]
    \o [k \in 1..Len(data.bonds) |-> ExportBondLine(data.atoms, data.bonds[k])]
    \o << MEndLine, DollarLine, <<>> >>

\* the scene data of a rendered model
SceneDataOf(m) ==
  getEnhancedSceneData([StoreInit EXCEPT !.moleculeData = <<m>>], renderMolecule(m, TRUE))[1]

\* the same with the first atom at x = y = 100000, where a structure text with that atom at
\* x = y = 62500.0000 puts it
WithWideFields(d) ==
  [d EXCEPT !.atoms[1].position = <<100000 * Unit, 100000 * Unit, @[3]>>]

ExportInputs ==
  { SceneDataOf(m) : m \in BaseModels } \cup { WithWideFields(SceneDataOf(m)) : m \in BaseModels }

\* the parse of each exported text, run once, with the smallest and the largest random draw
ExportRuns ==
  [d \in ExportInputs, r \in JitterValues |->
     parseSDF2DTo3D(generateSDFFromScene(d), d.formula, [k \in 1..MaxAtomLines |-> r])]

InitExport ==
  /\ sdfText = <<>>
  /\ ps = ParserIdle
  /\ store = StoreInit
  /\ requests = <<>>
  /\ scene = SceneInit
  /\ sceneData \in { <<d>> : d \in ExportInputs }
  /\ calc = <<>>
  /\ apiWakeup = <<>>

\* download-modal.tsx line 100
CallGenerateSDF ==
  /\ calc = <<>>
  /\ calc' = [op |-> "generateSDFFromScene", arg |-> sceneData[1],
              result |-> generateSDFFromScene(sceneData[1])]
  /\ UNCHANGED <<sdfText, ps, store, requests, scene, sceneData, apiWakeup>>

\* the exported text is handed to parseSDF2DTo3D
ParseExported ==
  /\ calc # <<>>
  /\ calc.op = "generateSDFFromScene"
  /\ \E r \in JitterValues :
       calc' = [op |-> "parseSDF2DTo3D", arg |-> calc.arg, result |-> ExportRuns[calc.arg, r]]
  /\ UNCHANGED <<sdfText, ps, store, requests, scene, sceneData, apiWakeup>>

NextExport == CallGenerateSDF \/ ParseExported

SpecExport == InitExport /\ [][NextExport]_vars

(***************************************************************************)
(* Properties of the parser.                                               *)
(***************************************************************************)
AtomIds(atoms) == { atoms[k].id : k \in 1..Len(atoms) }

\* the bond line read by iteration i of the bond loop
BondLineOf(i) == LineAt(sdfText, NAdd(NAdd(4, ps.atomCount), i))
\* a 1-based endpoint field names an atom that was parsed
EndpointOk(field, atoms) ==
  LET n == ParseInt(field) IN ~IsNaN(n) /\ n >= 1 /\ n <= Len(atoms)
\* the bond line is present, has its three fields and names two parsed atoms
BondLineValid(line, atoms) ==
  /\ line # Undefined
  /\ Len(line) >= 9
  /\ EndpointOk(SubSeq(line, 1, 3), atoms)
  /\ EndpointOk(SubSeq(line, 4, 6), atoms)
\* a step of the bond loop that reads a line
BondIteration == ps.pc = "bonds" /\ ps.i < ps.bondCount

\* C1: in every returned model each bond's atom1 and atom2 are ids of atoms of that model.
C1_BondsReferenceAtoms ==
  ps.pc = "done" =>
    LET m == ParseResult(ps)
    IN  \A k \in 1..Len(m.bonds) :
          m.bonds[k].atom1 \in AtomIds(m.atoms) /\ m.bonds[k].atom2 \in AtomIds(m.atoms)

C1_Witness ==
  /\ ps.pc = "done"
  /\ Len(ps.bonds) = 2
  /\ Len(ps.atoms) = 3
  /\ ps.bonds[1].atom1 # ps.bonds[2].atom2
  /\ \E j, k \in 1..3 : j # k /\ ps.atoms[j].element = ps.atoms[k].element

\* C2: atom ids are pairwise distinct and each is "<element>-<n>", n the 1-based count of
\* atoms with that element up to and including the atom, in file order.
C2_AtomIds ==
  /\ \A j, k \in 1..Len(ps.atoms) : j # k => ps.atoms[j].id # ps.atoms[k].id
  /\ \A k \in 1..Len(ps.atoms) :
       ps.atoms[k].id =
         ps.atoms[k].element \o <<"-">> \o
         ToDecimal(Cardinality({ j \in 1..k : ps.atoms[j].element = ps.atoms[k].element }))

C2_Witness ==
  /\ ps.pc = "done"
  /\ Len(ps.atoms) = 3
  /\ ps.atoms[1].element = ps.atoms[3].element
  /\ ps.atoms[2].element # ps.atoms[1].element
  /\ ps.atoms[3].id = ps.atoms[3].element \o <<"-", "2">>

\* C3: a retained bond is "double" for order code 2, "triple" for code 3 and "single" for
\* every other code (0, 1, 4, negative, not a number); no other type is produced.
C3_BondOrder ==
  [][ (BondIteration /\ Len(ps'.bonds) = Len(ps.bonds) + 1) =>
        LET code == ParseInt(SubSeq(BondLineOf(ps.i), 7, 9))
            type == ps'.bonds[Len(ps'.bonds)].type
        IN  /\ (code = 2) => type = "double"
            /\ (code = 3) => type = "triple"
            /\ (code \notin {2, 3}) => type = "single"
            /\ type \in {"single", "double", "triple"} ]_vars

\* a bond with order code 4 has been retained, after a double bond
C3_Witness ==
  /\ ps.pc = "bonds"
  /\ ps.i = 2
  /\ Len(ps.bonds) = 2
  /\ ParseInt(SubSeq(BondLineOf(1), 7, 9)) = 4
  /\ ps.bonds[1].type = "double"
  /\ ps.bonds[2].type = "single"

\* C4: a bond line that is missing, shorter than 9 characters or has an endpoint that is
\* 0, negative, not a number or beyond the parsed atoms is dropped: no bond, no adjacency
\* entry, no exception; every other bond line is retained, in file order.
C4_BadBondLinesDropped ==
  [][ BondIteration =>
        LET line == BondLineOf(ps.i)
        IN  /\ ps'.pc # "thrown"
            /\ ~BondLineValid(line, ps.atoms) =>
                 ps'.bonds = ps.bonds /\ ps'.connectivity = ps.connectivity
            /\ BondLineValid(line, ps.atoms) =>
                 /\ Len(ps'.bonds) = Len(ps.bonds) + 1
                 /\ SubSeq(ps'.bonds, 1, Len(ps.bonds)) = ps.bonds
                 /\ ps'.bonds[Len(ps'.bonds)].atom1 =
                      ps.atoms[ParseInt(SubSeq(line, 1, 3))].id
                 /\ ps'.bonds[Len(ps'.bonds)].atom2 =
                      ps.atoms[ParseInt(SubSeq(line, 4, 6))].id ]_vars

\* a parse that dropped its first bond line and retained its second has returned
C4_Witness ==
  /\ ps.pc = "done"
  /\ ps.bondCount = 2
  /\ ~BondLineValid(BondLineOf(0), ps.atoms)
  /\ BondLineValid(BondLineOf(1), ps.atoms)
  /\ Len(ps.bonds) = 1

\* the z field of the k-th atom line of the text (1-based), an unparseable one as 0
ParsedZ(k) == OrZero(ParseFloat(Trim(Substring(LineAt(sdfText, 3 + k), 20, 30))))

\* the largest |z| over the parsed atoms is below 0.1
FlatParsed == \A k \in 1..Len(ps.atoms) : Abs(ParsedZ(k)) < 100

\* C13: the parser enters z synthesis exactly when the largest parsed |z| is below 0.1;
\* once entered, synthesis visits the atoms one by one and ends only after the last; when
\* it is not entered, every returned z is the parsed z times 1.6.
C13_ReconstructionAllOrNothing ==
  [][/\ (ps.pc = "detect" => ps'.pc = IF FlatParsed THEN "zsynth" ELSE "scale")
     /\ (ps.pc = "zsynth" /\ ps'.pc = "zsynth" => (ps.i < Len(ps.atoms) /\ ps'.i = ps.i + 1))
     /\ (ps.pc = "zsynth" /\ ps'.pc # "zsynth" => (ps.i = Len(ps.atoms) /\ ps'.pc = "scale"))
     /\ ((ps'.pc = "done" /\ ~FlatParsed) =>
           \A k \in 1..Len(ps'.atoms) :
             ps'.atoms[k].position[3] = NScale(ParsedZ(k), 16, 10))]_vars

\* a flat text of three atoms was reconstructed: an atom whose parsed z was 0.05 does not
\* carry it in the result
C13_Witness ==
  /\ ps.pc = "done"
  /\ FlatParsed
  /\ Len(ps.atoms) = 3
  /\ \E k \in 1..3 : ParsedZ(k) = 50 /\ ps.atoms[k].position[3] # 80

\* the atom the synthesis step is about to visit, its neighbours and its degree
ZAtom == ps.atoms[ps.i + 1]
ZConnected ==
  IF ps.i + 1 \in DOMAIN ps.connectivity THEN ps.connectivity[ps.i + 1] ELSE <<>>
ZDegree == Len(ZConnected)

\* the z a visit writes when the base offset comes from `rule`, the draw is r and the
\* first neighbour's z is taken to be partnerZ
ZWritten(rule, r, partnerZ) ==
  LET base == BaseZ(rule, ZAtom.position[1], ZAtom.position[2], ps.i, r, partnerZ)
      z == IF ZDegree >= 2 THEN NAdd(base, NScale(MathSin(ps.i * 900), 3, 10)) ELSE base
  IN  NScale(z, 14, 10)

\* a visit of the synthesis step to one atom
ZVisit == ps.pc = "zsynth" /\ ps'.pc = "zsynth"

\* C14: the z written for an atom during synthesis is a function of that atom's x, y,
\* element, degree, index and draw, and, for a hydrogen with one neighbour, of the
\* neighbour's parsed z, wherever the neighbour stands in the file.
C14_SynthesisIndependent ==
  [][ZVisit =>
       \E r \in JitterValues :
         ps'.atoms[ps.i + 1].position[3] =
           ZWritten(ZRule(ZAtom.element, ZDegree), r,
                    IF ZDegree >= 1 THEN ParsedZ(ZConnected[1] + 1) ELSE 0)]_vars

\* the rule C15 assigns to an element and a neighbour count
ClaimedRule(element, degree) ==
  IF element = E("C") /\ degree \in {2, 3, 4} THEN
       (IF degree = 4 THEN "C4" ELSE IF degree = 3 THEN "C3" ELSE "C2")
  ELSE IF element = E("N") /\ degree \in {2, 3} THEN (IF degree = 3 THEN "N3" ELSE "N2")
  ELSE IF element = E("O") /\ degree \in {1, 2} THEN (IF degree = 2 THEN "O2" ELSE "O1")
  ELSE IF element = E("H") /\ degree = 1 THEN "H1"
  ELSE "other"

\* C15: the z written for an atom during synthesis comes from the rule of its element
\* and degree for the eight listed combinations, and from the generic rule with jitter
\* for every other combination.
C15_RuleSelection ==
  [][ZVisit =>
       \E r \in JitterValues :
         ps'.atoms[ps.i + 1].position[3] =
           ZWritten(ClaimedRule(ZAtom.element, ZDegree), r,
                    IF ZDegree >= 1 THEN ps.atoms[ZConnected[1] + 1].position[3] ELSE 0)]_vars

\* C16: at every point of a parse the elements table has an entry for exactly the symbols
\* of the atoms read so far; a listed symbol has its table radius and colour, an unlisted
\* one radius 0.4 and colour #808080; and no step changes or removes an entry.
C16_ElementsTable ==
  /\ [](/\ DOMAIN ps.elements = { ps.atoms[k].element : k \in 1..Len(ps.atoms) }
        /\ \A e \in DOMAIN ps.elements :
             /\ ps.elements[e].radius =
                  (IF e \in DOMAIN elementRadii THEN elementRadii[e] ELSE 400)
             /\ ps.elements[e].color =
                  (IF e \in DOMAIN elementColors THEN elementColors[e] ELSE "#808080"))
  /\ [][\A e \in DOMAIN ps.elements :
          e \in DOMAIN ps'.elements /\ ps'.elements[e] = ps.elements[e]]_vars

\* a finished parse of two atoms with the unlisted symbol Xx
C16_Witness ==
  /\ ps.pc = "done"
  /\ Len(ps.atoms) = 2
  /\ \A k \in 1..2 : ps.atoms[k].element = E2("X", "x")
  /\ ps.atoms[1].id # ps.atoms[2].id
  /\ ps.elements[E2("X", "x")] = [radius |-> 400, color |-> "#808080"]

\* x and y of atom k as parseFloat reads them from its line
ParsedX(k) == ParseFloat(Trim(Substring(LineAt(sdfText, 3 + k), 0, 10)))
ParsedY(k) == ParseFloat(Trim(Substring(LineAt(sdfText, 3 + k), 10, 20)))

\* the atoms already read keep their position in this step
PositionsKept ==
  \A k \in 1..Len(ps.atoms) : ps'.atoms[k].position = ps.atoms[k].position

\* C19: in a run of the parser, a step of the atom loop, the bond loop or the flatness
\* test changes no position; a visit of the z reconstruction happens only when the text
\* was found flat, visits the atoms in order, one visit each, and changes nothing of the
\* atoms but the z of the atom it visits; the scaling step replaces every coordinate of
\* every atom by 1.6 times its value and leaves each atom with id, element and position
\* only; so x and y of a returned atom are 1.6 times the parsed values, and the returned
\* model has the fields formula, elements, atoms and bonds.
C19_PositionWrites ==
  /\ [][/\ ps.pc \in {"atoms", "bonds", "detect"} => PositionsKept
        /\ ZVisit =>
             /\ ps.is2D
             /\ ps'.i = ps.i + 1
             /\ Len(ps'.atoms) = Len(ps.atoms)
             /\ \A k \in 1..Len(ps.atoms) :
                  /\ k # ps.i + 1 => ps'.atoms[k] = ps.atoms[k]
                  /\ ps'.atoms[k].id = ps.atoms[k].id
                  /\ ps'.atoms[k].element = ps.atoms[k].element
                  /\ ps'.atoms[k].originalIndex = ps.atoms[k].originalIndex
                  /\ ps'.atoms[k].position[1] = ps.atoms[k].position[1]
                  /\ ps'.atoms[k].position[2] = ps.atoms[k].position[2]
        /\ (ps.pc = "zsynth" /\ ps'.pc # "zsynth") =>
             (ps.i = Len(ps.atoms) /\ ps'.pc = "scale" /\ PositionsKept)
        /\ ps.pc = "scale" =>
             /\ ps'.pc = "done"
             /\ Len(ps'.atoms) = Len(ps.atoms)
             /\ \A k \in 1..Len(ps.atoms) :
                  /\ DOMAIN ps'.atoms[k] = {"id", "element", "position"}
                  /\ ps'.atoms[k].id = ps.atoms[k].id
                  /\ ps'.atoms[k].element = ps.atoms[k].element
                  /\ \A c \in 1..3 :
                       ps'.atoms[k].position[c] = NScale(ps.atoms[k].position[c], 16, 10)]_vars
  /\ [](ps.pc = "done" =>
          /\ DOMAIN ParseResult(ps) = {"formula", "elements", "atoms", "bonds"}
          /\ \A k \in 1..Len(ps.atoms) :
               /\ ps.atoms[k].position[1] = NScale(ParsedX(k), 16, 10)
               /\ ps.atoms[k].position[2] = NScale(ParsedY(k), 16, 10)
               /\ ~ps.is2D => ps.atoms[k].position[3] = NScale(ParsedZ(k), 16, 10))

\* a flat text of three atoms whose z were all rewritten and then scaled
C19_Witness ==
  /\ ps.pc = "done"
  /\ ps.is2D
  /\ Len(ps.atoms) = 3
  /\ \A k \in 1..3 :
       /\ ps.atoms[k].position[3] # NScale(ParsedZ(k), 16, 10)
       /\ ps.atoms[k].position[1] # ParsedX(k)
       /\ ~IsNaN(ps.atoms[k].position[1])

(***************************************************************************)
(* Properties of fetchMoleculeData and the store.                          *)
(***************************************************************************)
NoAtomsMessage == "Failed to load molecule: No atoms found in molecular structure"

\* the structure texts that pass the length and END test and parse to no atoms
ParsedEmpty ==
  { n \in 1..Len(SdfResponses) :
      /\ StructureValid(SdfResponses[n])
      /\ \A rnd \in JitterSeqs :
           LET r == parseSDF2DTo3D(SdfResponses[n], "H2O", rnd)
           IN  ~r.thrown /\ r.model.atoms = << >> }

\* invocation k returns in this step
Settles(k) == requests[k].pc # "done" /\ requests'[k].pc = "done"

\* C5: an invocation whose structure text parses to an empty atom list (an atom count of 0
\* or one that is not a number) returns with the no-atoms error in the store and without
\* having replaced moleculeData or rendered; so the model in the store and the model the
\* canvas has rendered always have an atom.
C5_EmptyModelRejected ==
  /\ [](store.moleculeData # << >> => store.moleculeData[1].atoms # << >>)
  /\ [][\A k \in 1..Len(requests) :
          (Settles(k) /\ requests'[k].sdfData \in ParsedEmpty)
            => /\ ~requests'[k].ok
               /\ store'.error = NoAtomsMessage
               /\ store'.moleculeData = store.moleculeData
               /\ scene' = scene]_vars

C5_Witness ==
  /\ Len(requests) = 2
  /\ requests[1].pc = "done" /\ requests[1].sdfData = 3
  /\ requests[2].pc = "done" /\ requests[2].sdfData = 4
  /\ store.error = NoAtomsMessage
  /\ store.moleculeData = << >>
  /\ scene.group = << >>

\* C6: once a later invocation of fetchMoleculeData has started, an earlier invocation
\* that returns writes neither moleculeData nor error.
C6_EarlierRequestDiscarded ==
  [][\A k \in 1..Len(requests) :
       (Settles(k) /\ k < Len(requests))
         => /\ store'.moleculeData = store.moleculeData
            /\ store'.error = store.error]_vars

(***************************************************************************)
(* Properties of the canvas.                                               *)
(***************************************************************************)
\* the spheres and cylinders of a scene, in order, without the labels
Geometry(sc) ==
  IF sc.group = << >> THEN << >>
  ELSE SelectSeq(sc.group[1].children, LAMBDA o : o.kind # "label")

Cylinders(sc) ==
  IF sc.group = << >> THEN << >>
  ELSE SelectSeq(sc.group[1].children, LAMBDA o : o.kind = "cylinder")

\* C7: a label toggle renders the model in the store again; the spheres and the bond
\* cylinders it builds (positions, radii, order, tags) and the offset of the group are
\* those of the render before.
C7_RenderRepeatable ==
  [][(store.moleculeData # << >> /\ store'.showLabels # store.showLabels)
       => /\ Geometry(scene') = Geometry(scene)
          /\ scene'.group[1].position = scene.group[1].position
          /\ scene'.cameraZ = scene.cameraZ]_vars

C7_Witness ==
  /\ store.moleculeData # << >>
  /\ ~store.showLabels
  /\ Len(Geometry(scene)) >= 5
  /\ Len(Cylinders(scene)) >= 2
  /\ \A k \in 1..Len(scene.group[1].children) : scene.group[1].children[k].kind # "label"

\* what the parser returned for the text on the page, for some draws of Math.random()
ParserReturned(data) ==
  \E rnd \in JitterSeqs :
    LET r == ParseCall(sdfText, "X", rnd)
    IN  /\ ~r.thrown
        /\ r.model.atoms = data.atoms
        /\ r.model.bonds = data.bonds
        /\ r.model.elements = data.elements

\* C8: whatever renders, label toggles, clears and extractions have run, the atoms, bonds
\* and elements of the model in the store are those the parser returned.
C8_ModelUnchanged ==
  store.moleculeData # << >> => ParserReturned(store.moleculeData[1])

C8_Witness ==
  /\ store.moleculeData # << >>
  /\ ~store.showLabels
  /\ sceneData # << >>
  /\ Len(store.moleculeData[1].atoms) = 3
  /\ sceneData[1].atoms[3].position # store.moleculeData[1].atoms[3].position

\* the cylinders a bond type stands for
CylindersPerBond(type) ==
  IF type = "single" THEN 1 ELSE IF type = "double" THEN 2 ELSE 3

Count(seq, Test(_)) == Len(SelectSeq(seq, Test))

Rendered(sc, id) ==
  \E k \in 1..Len(sc.group[1].children) :
    sc.group[1].children[k].kind = "sphere" /\ sc.group[1].children[k].atomId = id

\* C9: in a rendered scene, for every bond of the model whose two atoms have spheres, the
\* cylinders tagged with its type and its two atom ids number 1, 2 or 3 for single,
\* double or triple, times the bonds of the model with that type and those ids; and
\* every cylinder carries the tag of such a bond.
C9_CylindersPerBond ==
  store.moleculeData # << >> =>
    LET data == store.moleculeData[1]
        SameBond(b, c) == c.type = b.type /\ c.atom1 = b.atom1 /\ c.atom2 = b.atom2
        Drawn(b) == Rendered(scene, b.atom1) /\ Rendered(scene, b.atom2)
    IN  /\ \A k \in 1..Len(data.bonds) :
             LET b == data.bonds[k]
             IN  Drawn(b) =>
                   Count(Cylinders(scene),
                         LAMBDA o : o.bondType = b.type /\ o.atom1 = b.atom1 /\ o.atom2 = b.atom2)
                     = CylindersPerBond(b.type) * Count(data.bonds, LAMBDA c : SameBond(b, c))
        /\ \A j \in 1..Len(Cylinders(scene)) :
             \E k \in 1..Len(data.bonds) :
               /\ Drawn(data.bonds[k])
               /\ Cylinders(scene)[j].bondType = data.bonds[k].type
               /\ Cylinders(scene)[j].atom1 = data.bonds[k].atom1
               /\ Cylinders(scene)[j].atom2 = data.bonds[k].atom2

C9_Witness ==
  /\ store.moleculeData # << >>
  /\ Len(store.moleculeData[1].bonds) = 2
  /\ Count(Cylinders(scene), LAMBDA o : o.bondType = "double") = 2
  /\ Count(Cylinders(scene), LAMBDA o : o.bondType = "triple") = 3

\* the bounding box of the scene with the translation of the group applied
SceneBox(sc) == BoxOfObjects(sc.group[1].children, sc.group[1].position)

\* C10: whenever a model with atoms has been rendered, the bounding box of the spheres,
\* cylinders and labels, moved by the translation of the group, has its centre at the
\* origin, up to 0.002 on each axis.
C10_SceneCentered ==
  (store.moleculeData # << >> /\ store.moleculeData[1].atoms # << >>) =>
    /\ scene.group # << >>
    /\ ~SceneBox(scene).empty
    /\ \A c \in 1..3 :
         /\ ~IsNaN(SceneBox(scene).min[c])
         /\ ~IsNaN(SceneBox(scene).max[c])
         /\ Abs(SceneBox(scene).min[c] + SceneBox(scene).max[c]) <= 4

InvalidStructureMessage == "Failed to load molecule: Invalid structure data"

\* structure text n has at least 200 characters and contains END
LongWithEND(n) == TextLength(SdfResponses[n]) >= 200 /\ IncludesEND(SdfResponses[n])

\* C18: an invocation that received a structure text shorter than 200 characters or
\* without END returns with the invalid-structure error, without success, and leaves
\* moleculeData and the scene as they were; an invocation waits for the formula, or
\* returns with a parse outcome (success, the parser's exception or the no-atoms error),
\* only on a text of at least 200 characters that contains END.
C18_StructureValidated ==
  /\ [](\A k \in 1..Len(requests) :
         (requests[k].pc = "formula" \/ requests[k].ok) => LongWithEND(requests[k].sdfData))
  /\ [][\A k \in 1..Len(requests) :
          (Settles(k) /\ requests'[k].sdfData # 0) =>
            IF LongWithEND(requests'[k].sdfData)
            THEN \/ requests'[k].ok
                 \/ store'.error \in {NoAtomsMessage, "Failed to load molecule: TypeError"}
            ELSE /\ ~requests'[k].ok
                 /\ store'.error = InvalidStructureMessage
                 /\ store'.moleculeData = store.moleculeData
                 /\ scene' = scene]_vars

\* a long text without END and a short text were both refused after a molecule had
\* been loaded, and that molecule is still in the store
C18_Witness ==
  /\ Len(requests) = 2
  /\ requests[1].pc = "done" /\ requests[1].ok
  /\ requests[2].pc = "done" /\ requests[2].sdfData = 7
  /\ TextLength(SdfResponses[7]) >= 200
  /\ store.error = InvalidStructureMessage
  /\ store.moleculeData # << >>
  /\ scene.group # << >>

(***************************************************************************)
(* Properties of calculateSpacingFactor.                                   *)
(***************************************************************************)
\* C11: the result of calculateSpacingFactor lies in [1.0, 1.8] for every atom count, 0
\* and very large counts included, and a call with a count at least as large as that of
\* the call before returns a result at least as large.
C11_SpacingMonotoneBounded ==
  /\ [](calc # <<>> => (calc.result >= 1000 /\ calc.result <= 1800))
  /\ [][(calc # <<>> /\ calc.arg <= calc'.arg) => calc.result <= calc'.result]_vars

C11_Witness == calc # <<>> /\ calc.arg = 2000000 /\ calc.result = 1800

\* C12 as stated: the result is exactly 1.0 for the smallest non-empty molecule (one
\* atom, which lies below any threshold that admits non-empty molecules) and exactly 1.8
\* from 400 atoms on.
C12_NoScalingForSmallMolecules ==
  calc # <<>> =>
    /\ (calc.arg = 1 => calc.result = 1000)
    /\ (calc.arg >= 400 => calc.result = 1800)

\* C12 amended: the result is exactly 1.0 for an atom count of 0 only; below 400 atoms it
\* is 1 + count / 500, which is above 1.0 for every non-empty molecule; from 400 atoms on
\* it is exactly 1.8.
C12_SpacingValues ==
  calc # <<>> =>
    /\ (calc.result = 1000 <=> calc.arg = 0)
    /\ (calc.arg < 400 => calc.result = 1000 + 2 * calc.arg)
    /\ (calc.arg >= 400 => calc.result = 1800)

C12_Witness == calc # <<>> /\ calc.arg = 3 /\ calc.result = 1006


(***************************************************************************)
(* Properties of the canvas on any model.                                  *)
(***************************************************************************)
Spheres(sc) ==
  IF sc.group = << >> THEN << >>
  ELSE SelectSeq(sc.group[1].children, LAMBDA o : o.kind = "sphere")

\* the effect has just run on the data in the store
JustRendered == calc # << >> /\ calc.op = "effect"

\* C17: after the effect has run, there is no group if the store has no molecule data;
\* otherwise there is a group, it has no child at all if the model has no atoms, an atom
\* has a sphere exactly if its element has an entry in the elements table, a bond one of
\* whose atom ids has no sphere has no cylinder, and every cylinder joins two ids that
\* have spheres.
C17_BuilderSkipsWhatIsMissing ==
  JustRendered =>
    IF store.moleculeData = << >> THEN scene.group = << >>
    ELSE LET data == store.moleculeData[1]
         IN  /\ scene.group # << >>
             /\ data.atoms = << >> => scene.group[1].children = << >>
             /\ \A k \in 1..Len(data.atoms) :
                  Count(Spheres(scene), LAMBDA o : o.atomIndex = k - 1)
                    = IF data.atoms[k].element \in DOMAIN data.elements THEN 1 ELSE 0
             /\ \A k \in 1..Len(data.bonds) :
                  LET b == data.bonds[k]
                  IN  ~(Rendered(scene, b.atom1) /\ Rendered(scene, b.atom2)) =>
                        Count(Cylinders(scene),
                              LAMBDA o : o.atom1 = b.atom1 /\ o.atom2 = b.atom2) = 0
             /\ \A j \in 1..Len(Cylinders(scene)) :
                  /\ Rendered(scene, Cylinders(scene)[j].atom1)
                  /\ Rendered(scene, Cylinders(scene)[j].atom2)

\* a model with an atom whose element has no entry and a bond to that atom, next to a
\* bond that is drawn
C17_Witness ==
  /\ JustRendered
  /\ store.moleculeData # << >>
  /\ LET data == store.moleculeData[1]
     IN  /\ \E k \in 1..Len(data.atoms) : data.atoms[k].element \notin DOMAIN data.elements
         /\ \E k \in 1..Len(data.bonds) : ~Rendered(scene, data.bonds[k].atom1)
         /\ Len(Spheres(scene)) = 2
         /\ Len(Cylinders(scene)) > 0

\* the same on a model whose atoms are gone while its bonds remain
C17_WitnessNoAtoms ==
  /\ JustRendered
  /\ store.moleculeData # << >>
  /\ store.moleculeData[1].atoms = << >>
  /\ store.moleculeData[1].bonds # << >>

\* the spheres tagged with atom index i (0-based)
SpheresOf(sc, i) == SelectSeq(Spheres(sc), LAMBDA o : o.atomIndex = i)

\* C20: in a rendered scene every sphere carries the index of an atom of the model and
\* the id and element of that atom, and no two spheres carry the same index; a call of
\* getEnhancedSceneData returns null when the store has no molecule data or no group is
\* rendered, and otherwise one entry per atom of the model, in the order of the model and
\* with its id and element, whose position is that of the atom's sphere, the model
\* position times the spacing factor, or the model position if the atom has no sphere.
C20_SceneDataFollowsSpheres ==
  /\ (store.moleculeData # << >> /\ scene.group # << >>) =>
       LET data == store.moleculeData[1]
       IN  /\ \A j \in 1..Len(Spheres(scene)) :
                LET o == Spheres(scene)[j]
                IN  /\ o.atomIndex \in 0..(Len(data.atoms) - 1)
                    /\ o.atomId = data.atoms[o.atomIndex + 1].id
                    /\ o.element = data.atoms[o.atomIndex + 1].element
           /\ \A i \in 0..(Len(data.atoms) - 1) : Len(SpheresOf(scene, i)) <= 1
  /\ (calc # << >> /\ calc.op = "getEnhancedSceneData") =>
       /\ sceneData = calc.result
       /\ IF store.moleculeData = << >> \/ scene.group = << >> THEN sceneData = << >>
          ELSE LET data == store.moleculeData[1]
                   factor == calculateSpacingFactor(Len(data.atoms))
               IN  /\ sceneData # << >>
                   /\ Len(sceneData[1].atoms) = Len(data.atoms)
                   /\ \A k \in 1..Len(data.atoms) :
                        LET out == sceneData[1].atoms[k]
                        IN  /\ out.id = data.atoms[k].id
                            /\ out.element = data.atoms[k].element
                            /\ IF SpheresOf(scene, k - 1) = << >>
                               THEN out.position = data.atoms[k].position
                               ELSE /\ out.position = SpheresOf(scene, k - 1)[1].position
                                    /\ \A c \in 1..3 :
                                         out.position[c] = NMul(data.atoms[k].position[c], factor)

\* an extraction from a scene in which one atom of three has no sphere and another has a
\* sphere away from its model position
C20_Witness ==
  /\ calc # << >> /\ calc.op = "getEnhancedSceneData"
  /\ sceneData # << >>
  /\ Len(store.moleculeData[1].atoms) = 3
  /\ \E k \in 1..3 : SpheresOf(scene, k - 1) = << >>
  /\ \E k \in 1..3 :
       /\ SpheresOf(scene, k - 1) # << >>
       /\ sceneData[1].atoms[k].position # store.moleculeData[1].atoms[k].position

\* an extraction before anything was rendered returns null
C20_WitnessNull ==
  /\ calc # << >> /\ calc.op = "getEnhancedSceneData"
  /\ store.moleculeData # << >>
  /\ scene.group = << >>
  /\ sceneData = << >>

(***************************************************************************)
(* Properties of an invocation of fetchMoleculeData from start to end.     *)
(***************************************************************************)
\* invocation k is suspended at an await
InFlight(k) == k \in 1..Len(requests) /\ requests[k].pc # "done"

\* invocation k has returned
Returned(k) == k \in 1..Len(requests) /\ requests[k].pc = "done"

\* the progress value in the store when an invocation reaches an await
ProgressAt(pc) ==
  IF pc = "search" THEN 15 ELSE IF pc = "edu" THEN 35 ELSE IF pc = "sdf" THEN 55 ELSE 75

\* invocation k moves from one await to the next in this step
Advances(k) == requests[k].pc # requests'[k].pc /\ requests'[k].pc # "done"

C28_FailureKeepsModel ==
  [][ /\ \A k \in 1..Len(requests) :
           /\ (Settles(k) /\ ~requests'[k].ok) =>
                /\ store'.moleculeData = store.moleculeData
                /\ store'.error # ""
           /\ Advances(k) => store'.moleculeData = store.moleculeData
      /\ (store'.moleculeData # store.moleculeData /\ store'.moleculeData # << >>) =>
           \E k \in 1..Len(requests) : Settles(k) /\ requests'[k].ok
      /\ Len(requests') > Len(requests) =>
           /\ store'.error = ""
           /\ store'.moleculeData = store.moleculeData ]_vars

\* an invocation whose text made the parser throw returned after one that had loaded a
\* model; the model is still in the store
C28_Witness ==
  /\ Len(requests) = 2
  /\ requests[1].pc = "done" /\ requests[1].ok
  /\ requests[2].pc = "done" /\ requests[2].sdfData = 6 /\ ~requests[2].ok
  /\ store.error = "Failed to load molecule: TypeError"
  /\ store.moleculeData # << >>

C30_LoadingWhileInFlight ==
  (\E k \in 1..Len(requests) : InFlight(k)) => store.loading

(***************************************************************************)
(* Properties of the bond cylinders.                                       *)
(***************************************************************************)
\* the sphere a bond end with this atom id is drawn to
SphereOfId(sc, id) == AtomMapGet(sc.group[1].children, id)[1]

\* the length factor C22 gives for a bond type
ClaimedLengthFactor(bondType) ==
  IF bondType = "single" THEN 1200 ELSE IF bondType = "double" THEN 1400 ELSE 1600

\* the length of cylinder o is the distance of the centres of its two spheres less their
\* two radii, times the factor of its bond type
LengthFromSurfaces(sc, o) ==
  LET a == SphereOfId(sc, o.atom1)
      b == SphereOfId(sc, o.atom2)
      distance == VLength(VSub(b.position, a.position))
  IN  o.height = NMul(NSub(NSub(distance, a.radius), b.radius), ClaimedLengthFactor(o.bondType))

\* the cylinders of a bond lie around the middle of the two points that are pulled in
\* from the centres by the radii: the first cylinder of a single or triple bond is
\* centred there
CenteredBetweenSurfaces(sc, o) ==
  LET a == SphereOfId(sc, o.atom1)
      b == SphereOfId(sc, o.atom2)
      axis == VNormalize(VSub(b.position, a.position))
      from == VAdd(a.position, VScale(axis, a.radius))
      to == VSub(b.position, VScale(axis, b.radius))
  IN  o.axis = axis /\
      \E j \in 1..Len(Cylinders(sc)) :
         LET c == Cylinders(sc)[j]
         IN  /\ c.atom1 = o.atom1 /\ c.atom2 = o.atom2 /\ c.bondType = o.bondType
             /\ \/ c.position = VHalf(VAdd(from, to))
                \/ /\ o.bondType = "double"
                   /\ \E d \in 1..Len(Cylinders(sc)) :
                        LET e == Cylinders(sc)[d]
                        IN  /\ e.atom1 = o.atom1 /\ e.atom2 = o.atom2
                            /\ VHalf(VAdd(c.position, e.position)) = VHalf(VAdd(from, to))

\* C22: every cylinder of a rendered scene has the length given by the surfaces of its
\* two spheres and the factor of its bond type, lies between the two pulled-in points,
\* and has a length that is not negative.
C22_BondLength ==
  \A j \in 1..Len(Cylinders(scene)) :
    LET o == Cylinders(scene)[j]
    IN  /\ LengthFromSurfaces(scene, o)
        /\ CenteredBetweenSurfaces(scene, o)
        /\ (~IsNaN(o.height) => o.height >= 0)

\* the first two conjuncts of C22 alone
C22_LengthAsComputed ==
  \A j \in 1..Len(Cylinders(scene)) :
    LET o == Cylinders(scene)[j]
    IN  LengthFromSurfaces(scene, o) /\ CenteredBetweenSurfaces(scene, o)

(***************************************************************************)
(* Properties of the camera.                                               *)
(***************************************************************************)
\* 1.8 * maxDim / (2 * tan(fov / 2)) for the box of the rendered scene, or 5 if larger
FitDistance(sc) ==
  LET size == BoxSize(SceneBox(sc))
      maxDim == NMax(NMax(size[1], size[2]), size[3])
  IN  NMax(NMul(maxDim, 1930), 5000)

\* C23: once a model has been rendered the camera looks at the origin from the larger of
\* the padded fit distance and 5, and a frame of the animation loop without user input
\* leaves the camera at that distance.
C23_CameraFits ==
  /\ [](JustRendered /\ store.moleculeData # << >> =>
          /\ scene.target = Vec(0, 0, 0)
          /\ scene.cameraZ = FitDistance(scene))
  /\ [][(calc' # << >> /\ calc'.op = "update" /\ scene.group # << >>) =>
          /\ scene'.target = Vec(0, 0, 0)
          /\ scene'.cameraZ = FitDistance(scene')]_vars

\* the first conjunct of C23 alone: the distance right after the render
C23_CameraPlaced ==
  (JustRendered /\ store.moleculeData # << >>) =>
    (scene.target = Vec(0, 0, 0) /\ scene.cameraZ = FitDistance(scene))

(***************************************************************************)
(* Properties of apiCall.                                                  *)
(***************************************************************************)
\* C26: a call issues at most retries + 1 requests; when every request and delay settles
\* it ends by returning or throwing and never leaves the loop without either; an attempt
\* before the last that fails with 429, a 5xx, 404 or other status, a timeout or a
\* network error is followed by a delay and then by another request; and a call throws
\* only in its last attempt, the error of that attempt.
C26_RetryLoop ==
  /\ [](calc.fetches <= calc.retries + 1 /\ calc.pc # "fellout")
  /\ <>(calc.pc \in {"returned", "thrown"})
  /\ [][/\ (calc.pc = "fetch" /\ calc.attempt < calc.retries
             /\ calc'.last \in {"429", "5xx", "404", "4xx", "timeout", "network"})
            => calc'.pc = "delay"
        /\ calc.pc = "delay"
            => (calc'.pc = "fetch" /\ calc'.attempt = calc.attempt + 1
                /\ calc'.fetches = calc.fetches + 1)]_vars
  /\ [](calc.pc = "thrown" =>
          /\ calc.last \in {"429", "5xx", "404", "4xx", "timeout", "network"}
               => calc.attempt = calc.retries
          /\ calc.error = ApiError(calc.history[Len(calc.history)])
          /\ Len(calc.history) = calc.attempt + 1)

\* a call with three retries that met a 429, a 5xx and a timeout and then threw the 404
\* error of its fourth request
C26_Witness ==
  /\ calc.version = 2 /\ calc.retries = 3
  /\ calc.history = <<"429", "5xx", "timeout", "404">>
  /\ calc.pc = "thrown"
  /\ calc.fetches = 4
  /\ calc.error = "Data not available for this compound"

(***************************************************************************)
(* Properties of the API status of the page.                               *)
(***************************************************************************)
\* C24: whenever shouldBlockApp is false, a check or wake-up has found the API awake
\* (isAwake is true) or the user has called forceSkip.
C24_BlockedUntilConfirmedOrSkipped ==
  ~apiWakeup.state.shouldBlockApp => (apiWakeup.state.isAwake \/ apiWakeup.skipped)

\* C25: from the moment the user dismisses the modal with handleForceSkip, the modal is
\* not visible until the user requests a retry.
C25_DismissedStaysHidden ==
  apiWakeup.dismissed => ~apiWakeup.showApiModal

\* the two effects of the page never undo each other
EffectsSettled == PageEffects(apiWakeup) = apiWakeup

(***************************************************************************)
(* Properties of the connection-table export.                              *)
(***************************************************************************)
Topology(data) ==
  [atoms |-> [k \in 1..Len(data.atoms) |->
                [id |-> data.atoms[k].id, element |-> data.atoms[k].element]],
   bonds |-> [k \in 1..Len(data.bonds) |->
                [atom1 |-> data.bonds[k].atom1, atom2 |-> data.bonds[k].atom2,
                 type |-> data.bonds[k].type]]]

BondsReferToAtoms(data) ==
  \A k \in 1..Len(data.bonds) :
    \A id \in {data.bonds[k].atom1, data.bonds[k].atom2} :
      \E j \in 1..Len(data.atoms) : data.atoms[j].id = id

Reparsed == calc # <<>> /\ calc.op = "parseSDF2DTo3D"

\* C21: for scene data of at most 999 atoms whose bonds name atoms of the data, the parse
\* of the exported text returns the same atoms (elements and ids, in order) and the same
\* bonds (endpoints and type, in order).
C21_ExportRoundTrip ==
  (Reparsed /\ Len(calc.arg.atoms) <= 999 /\ BondsReferToAtoms(calc.arg))
    => (~calc.result.thrown /\ Topology(calc.result.model) = Topology(calc.arg))

FieldsFit(data) ==
  \A k \in 1..Len(data.atoms) : \A c \in 1..3 : Len(ToFixed4(data.atoms[k].position[c])) <= 10

\* the same for scene data whose coordinates fit their ten columns
C21_RoundTripWhenFieldsFit ==
  (Reparsed /\ Len(calc.arg.atoms) <= 999 /\ BondsReferToAtoms(calc.arg) /\ FieldsFit(calc.arg))
    => (~calc.result.thrown /\ Topology(calc.result.model) = Topology(calc.arg))

C21_WitnessFits ==
  /\ Reparsed /\ FieldsFit(calc.arg)
  /\ Len(calc.arg.atoms) = 3 /\ Len(calc.arg.bonds) = 2
  /\ calc.arg.bonds[2].type = "triple"
  /\ Topology(calc.result.model) = Topology(calc.arg)

====
